---------------------------- MODULE Spec2Model ----------------------------
(* patchlint: the concurrent build/boot orchestration of patchlint.py.     *)
(* Threads: the main thread (main, and the SIGINT handler that Python runs *)
(* on it between its statements), one pool worker per job (build_config or *)
(* boot_test), and the boot watchdog timer thread.                         *)
EXTENDS Naturals, Integers, Sequences, FiniteSets, TLC

(* ------------------------------ bounds --------------------------------- *)
NumConfigs == 1      \* configurations built (WARN_CONFIGS has 2 in the source)
MaxInterrupts == 2   \* SIGINTs delivered in one run
MaxExitCode == 2     \* child exit codes are 0..MaxExitCode
MaxWarnings == 1     \* distinct normalized warnings a log may hold
CommandsLeft == 1    \* commands each running job has left when SpecSig starts
ActiveBuilds == 1    \* build jobs still running when SpecSig starts
MaxStderr == 2       \* characters of a stderr text
MaxAffix == 2        \* pieces before and after a line's location
MaxPairAffix == 1    \* the same, for the lines drawn in pairs
MaxLines == 3        \* lines handed to extract_normalized_warnings
MaxLogLines == 2     \* lines of each log handed to compare_warnings
MaxBootLines == 2    \* lines the virtual machine prints in a boot

(* ----------------------------- constants ------------------------------- *)
WARN_CONFIGS == 1..NumConfigs
ExitCodes == 0..MaxExitCode
NoRc == 0 - 1        \* "no return code yet"
WarningIds == 1..MaxWarnings

ConfigName(c) == << "allmodconfig", "allyesconfig" >>[c]

\* a variant of the list that regenerates the configuration before WERROR
\* is disabled
BuildCommandsRegenFirst(config_name) ==
    << << "vng", "--clean" >>,
       << "make", config_name >>,
       << "make", "olddefconfig" >>,
       << "./scripts/config", "-d", "WERROR" >>,
       << "vng", "--build", "--skip-config", "KCFLAGS=-Wno-error" >> >>

\* build_config's commands for one configuration name
BuildCommands(config_name) ==
    << << "vng", "--clean" >>,
       << "make", config_name >>,
       << "./scripts/config", "-d", "WERROR" >>,
       << "make", "olddefconfig" >>,
       << "vng", "--build", "--skip-config", "KCFLAGS=-Wno-error" >> >>

\* boot_test's build_commands
BootBuildCommands ==
    << << "vng", "--clean" >>,
       << "vng", "--build", "KCFLAGS=-Wno-error" >> >>

BootJob == << "boot", 0 >>
BuildJobs == { << k, c >> : k \in {"baseline", "candidate"}, c \in WARN_CONFIGS }
Jobs == BuildJobs \cup {BootJob}

\* the order main creates the worktrees and submits the jobs in
JobOrder(n) ==
    IF n = 2 * NumConfigs + 1 THEN BootJob
    ELSE << IF n % 2 = 1 THEN "baseline" ELSE "candidate", (n + 1) \div 2 >>

NumJobs == 2 * NumConfigs + 1

Commands(j) == IF j = BootJob THEN BootBuildCommands ELSE BuildCommands(ConfigName(j[2]))

\* a child is named by the job that started it and the position of its command;
\* the pty-backed boot child is the command after the boot job's build commands
BootCmd == Len(BootBuildCommands) + 1

VARIABLES
    mpc,          \* main thread: position in main()
    exc,          \* main thread: the exception (or SystemExit) propagating
    wtidx,        \* main thread: worktree being acquired / released
    sidx,         \* main thread: next job to submit
    wt,           \* worktree directories: state of each
    released,     \* worktrees whose release (git worktree remove) was started
    tmp,          \* the temporary log directory
    ws,           \* paths: of each worktree, and each job's directory and log
    handler,      \* is _sigint_handler installed
    exitCode,     \* the process exit code, once main has ended
    build_failed, \* main's local of that name
    results,      \* main's results[cfg]: new warnings per configuration
    boot_ok,      \* main's local: "unset", "ok", "failed"
    shutdown,     \* _shutdown
    hstack,       \* active invocations of _sigint_handler, innermost last
    nint,         \* SIGINTs delivered so far
    child_procs,  \* _child_procs
    child_pids,   \* _child_pids
    lock,         \* _child_procs_lock: NoThread or the thread holding it
    removed,      \* children that were reaped and taken out of the registry
    jpc,          \* worker of each job: position
    jcmd,         \* worker of each job: index of its current command
    jrc,          \* worker of each job: rc of the last reaped command
    proc,         \* the child of each job: "none","running","zombie","gone"
    termed,       \* per job: signal delivered to its live child
    ran,          \* per job: the commands started, with their return codes
    futures,      \* per job: the Future of its worker
    logw,         \* per build job: normalized warnings in its log
    timer,        \* watchdog thread: "off","armed","set","fired","cancelled"
    timed_out,    \* _run_vng_boot's timed_out event
    status,       \* how the boot child ended (os.waitpid's status)
    bootlog,      \* what boot_test wrote to its log after the build phase
    text          \* the warning functions at work: their inputs and results

mainVars == << mpc, exc, wtidx, sidx, wt, released, tmp, ws, handler, exitCode,
               build_failed, results, boot_ok >>
sigVars  == << shutdown, hstack, nint, removed >>
regVars  == << child_procs, child_pids, lock >>
jobVars  == << jpc, jcmd, jrc, proc, termed, ran, futures, logw >>
bootVars == << timer, timed_out, status, bootlog >>
progVars == << mainVars, sigVars, regVars, jobVars, bootVars >>
vars == << progVars, text >>

Child(j) == << j, jcmd[j] >>

Remove(s, x) == SelectSeq(s, LAMBDA y : y # x)
Range(s) == { s[i] : i \in 1..Len(s) }

SeqsUpTo(S, n) == UNION { [1..k -> S] : k \in 0..n }

\* str.strip(): leading and trailing whitespace is dropped
RECURSIVE LStrip(_)
LStrip(t) == IF t # << >> /\ Head(t) = " " THEN LStrip(Tail(t)) ELSE t

RECURSIVE RStrip(_)
RStrip(t) == IF t # << >> /\ t[Len(t)] = " " THEN RStrip(SubSeq(t, 1, Len(t) - 1)) ELSE t

Strip(t) == LStrip(RStrip(t))

\* worker threads run while the interpreter lives; the handler runs on the
\* main thread, so main's own statements wait for it
MainRuns == hstack = << >>

NoThread == << "free", 0 >>
MainThread == << "main", 0 >>

\* the values of a Future: not submitted, running, returned, raised
NoFuture == [st |-> "unsubmitted", rc |-> NoRc, uname |-> FALSE]
Pending == [st |-> "pending", rc |-> NoRc, uname |-> FALSE]
Returned(rc, uname) == [st |-> "returned", rc |-> rc, uname |-> uname]
Raised == [st |-> "raised", rc |-> NoRc, uname |-> FALSE]
\* ... raised because Popen could not start the command (OSError)
Errored == [st |-> "errored", rc |-> NoRc, uname |-> FALSE]

\* Popen.wait(): the exit code, or minus the signal number
SigRc(sig) == IF sig = "TERM" THEN 0 - 15 ELSE 0 - 9
WaitCodes(j) == ExitCodes \cup (IF termed[j] = "none" THEN {} ELSE {SigRc(termed[j])})

(* ------------------------- run_and_log: _spawn -------------------------- *)
\* build_config / boot_test write the "# cmd:" marker, then _spawn tests the flag
SpawnRefused == shutdown

WCheck(j) ==
    /\ jpc[j] = "check"
    /\ IF SpawnRefused
       THEN /\ jpc' = [jpc EXCEPT ![j] = "done"]
            /\ futures' = [futures EXCEPT ![j] = Raised]
       ELSE /\ jpc' = [jpc EXCEPT ![j] = "popen"]
            /\ UNCHANGED futures
    /\ UNCHANGED << mainVars, sigVars, regVars, bootVars,
                    jcmd, jrc, proc, termed, ran, logw >>
    /\ UNCHANGED text

\* subprocess.Popen(...): the child exists from here on
WPopen(j) ==
    /\ jpc[j] = "popen"
    /\ proc' = [proc EXCEPT ![j] = "running"]
    /\ termed' = [termed EXCEPT ![j] = "none"]
    /\ ran' = [ran EXCEPT ![j] = Append(@, [cmd |-> Commands(j)[jcmd[j]], rc |-> NoRc])]
    /\ jpc' = [jpc EXCEPT ![j] = "acq_add"]
    /\ UNCHANGED << mainVars, sigVars, regVars, bootVars, jcmd, jrc, futures, logw >>
    /\ UNCHANGED text

\* subprocess.Popen(...) raises OSError (no such file, no permission): no
\* child exists; the exception leaves run_and_log and build_config /
\* boot_test, whose "with log_path.open" closes the log, and the Future keeps it
WPopenFails(j) ==
    /\ jpc[j] = "popen"
    /\ jpc' = [jpc EXCEPT ![j] = "done"]
    /\ futures' = [futures EXCEPT ![j] = Errored]
    /\ UNCHANGED << mainVars, sigVars, regVars, bootVars,
                    jcmd, jrc, proc, termed, ran, logw >>
    /\ UNCHANGED text

\* "with _child_procs_lock:" entered by a worker (blocks while it is held)
AfterAcquire(pc) ==
    CASE pc = "acq_add" -> "add"
      [] pc = "acq_rm" -> "rm"
      [] pc = "b_acq" -> "b_add"
      [] pc = "b_acq_rm" -> "b_rm"

\* a variant: a with block that is entered whoever holds the lock
EnterUnguarded(t) == TRUE

\* the lock is a threading.Lock: it is entered only while no thread holds it
CanEnter(t) == lock = NoThread

WAcquire(j) ==
    /\ jpc[j] \in {"acq_add", "acq_rm", "b_acq", "b_acq_rm"}
    /\ CanEnter(j)
    /\ lock' = j
    /\ jpc' = [jpc EXCEPT ![j] = AfterAcquire(jpc[j])]
    /\ UNCHANGED << mainVars, sigVars, bootVars, child_procs, child_pids,
                    jcmd, jrc, proc, termed, ran, futures, logw >>
    /\ UNCHANGED text

\* a variant: _spawn keeps the lock until the child was reaped
LockKeptAfterAppend(j) == j

\* the with block of _spawn ends after the append: the lock is released
\* before _spawn returns
LockAfterAppend(j) == NoThread

\* a variant: the caller launches again without reading and reaping
AfterSpawnLaunchAgain(j) == "check"

\* run_and_log after _spawn returned: it copies the child's output to the
\* log until end of file and then calls _reap
AfterSpawn(j) == "wait"

\* _child_procs.append(proc), leaving the with block
WAdd(j) ==
    /\ jpc[j] = "add"
    /\ lock = j
    /\ child_procs' = Append(child_procs, Child(j))
    /\ lock' = LockAfterAppend(j)
    /\ jpc' = [jpc EXCEPT ![j] = AfterSpawn(j)]
    /\ UNCHANGED << mainVars, sigVars, bootVars, child_pids,
                    jcmd, jrc, proc, termed, ran, futures, logw >>
    /\ UNCHANGED text

\* run_and_log copies the child's output until end of file, then _reap's
\* proc.wait() returns its code: the child is gone from the process table
WWait(j) ==
    /\ jpc[j] = "wait"
    /\ proc[j] = "running"
    /\ \E rc \in WaitCodes(j) :
          /\ jrc' = [jrc EXCEPT ![j] = rc]
          /\ ran' = [ran EXCEPT ![j][Len(ran[j])].rc = rc]
    /\ proc' = [proc EXCEPT ![j] = "gone"]
    /\ jpc' = [jpc EXCEPT ![j] = "acq_rm"]
    /\ UNCHANGED << mainVars, sigVars, regVars, bootVars, jcmd, termed, futures, logw >>
    /\ UNCHANGED text

\* a variant: a loop that goes on whatever a step returned
StepNeverFailed(rc) == FALSE

\* "if rc != 0: return rc" of build_config and of boot_test's build phase
StepFailed(rc) == rc # 0

\* the value build_config returns when a step failed
FailCode(rc) == rc

\* a variant: a failed step cancels the run
FlagSetOnFailure(rc) == shutdown \/ rc # 0

\* "if rc != 0: return rc": the job returns, _shutdown is left as it is
FlagAfterStep(rc) == shutdown

\* _reap: _child_procs.remove(proc) under the lock; then the caller's test of rc
WRemove(j) ==
    /\ jpc[j] = "rm"
    /\ lock = j
    /\ shutdown' = FlagAfterStep(jrc[j])
    /\ child_procs' = Remove(child_procs, Child(j))
    /\ removed' = removed \cup {Child(j)}
    /\ lock' = NoThread
    /\ IF StepFailed(jrc[j])
       THEN /\ jpc' = [jpc EXCEPT ![j] = "done"]
            /\ futures' = [futures EXCEPT ![j] = Returned(FailCode(jrc[j]), FALSE)]
            /\ UNCHANGED << jcmd, logw >>
       ELSE IF jcmd[j] < Len(Commands(j))
       THEN /\ jpc' = [jpc EXCEPT ![j] = "check"]
            /\ jcmd' = [jcmd EXCEPT ![j] = @ + 1]
            /\ UNCHANGED << futures, logw >>
       ELSE IF j = BootJob
       THEN /\ jpc' = [jpc EXCEPT ![j] = "b_check"]
            /\ jcmd' = [jcmd EXCEPT ![j] = BootCmd]
            /\ UNCHANGED << futures, logw >>
       ELSE /\ jpc' = [jpc EXCEPT ![j] = "done"]
            /\ futures' = [futures EXCEPT ![j] = Returned(0, FALSE)]
            /\ \E w \in SUBSET WarningIds : logw' = [logw EXCEPT ![j] = w]
            /\ UNCHANGED jcmd
    /\ UNCHANGED << mainVars, bootVars, hstack, nint,
                    child_pids, jrc, proc, termed, ran >>
    /\ UNCHANGED text

(* ----------------------------- _run_vng_boot ---------------------------- *)
NoStatus == [exited |-> FALSE, code |-> NoRc]

\* the transcript _run_vng_boot returned, as boot_test appends it to the log
\* under the "# cmd: vng -r" line: does it hold a line matching the uname
\* pattern, does it end with "[boot timed out]"
NoTranscript == [written |-> FALSE, uname |-> FALSE, marker |-> FALSE]
Transcript(uname, marker) == [written |-> TRUE, uname |-> uname, marker |-> marker]

\* "if _shutdown.is_set(): return 1, ''", and boot_test on that: no uname
\* line in an empty transcript
BCheck ==
    /\ jpc[BootJob] = "b_check"
    /\ IF shutdown
       THEN /\ futures' = [futures EXCEPT ![BootJob] = Returned(1, FALSE)]
            /\ bootlog' = Transcript(FALSE, FALSE)
            /\ jpc' = [jpc EXCEPT ![BootJob] = "done"]
       ELSE /\ jpc' = [jpc EXCEPT ![BootJob] = "b_fork"]
            /\ UNCHANGED << futures, bootlog >>
    /\ UNCHANGED << mainVars, sigVars, regVars, timer, timed_out, status,
                    jcmd, jrc, proc, termed, ran, logw >>
    /\ UNCHANGED text

\* os.forkpty(): the child execs vng
BFork ==
    /\ jpc[BootJob] = "b_fork"
    /\ proc' = [proc EXCEPT ![BootJob] = "running"]
    /\ termed' = [termed EXCEPT ![BootJob] = "none"]
    /\ jpc' = [jpc EXCEPT ![BootJob] = "b_acq"]
    /\ UNCHANGED << mainVars, sigVars, regVars, bootVars, jcmd, jrc, ran, futures, logw >>
    /\ UNCHANGED text

\* _child_pids.append(pid) under the lock; then the watchdog is created
\* and started: timed_out = threading.Event(); timer.start()
BAdd ==
    /\ jpc[BootJob] = "b_add"
    /\ lock = BootJob
    /\ child_pids' = Append(child_pids, Child(BootJob))
    /\ lock' = NoThread
    /\ timer' = "armed"
    /\ timed_out' = FALSE
    /\ jpc' = [jpc EXCEPT ![BootJob] = "b_read"]
    /\ UNCHANGED << mainVars, sigVars, status, bootlog, child_procs,
                    jcmd, jrc, proc, termed, ran, futures, logw >>
    /\ UNCHANGED text

\* the boot child ends: by itself, or by a signal delivered to it
BootExit ==
    /\ proc[BootJob] = "running"
    /\ jcmd[BootJob] = BootCmd
    /\ \/ /\ termed[BootJob] # "KILL"
          /\ \E c \in ExitCodes : status' = [exited |-> TRUE, code |-> c]
       \/ /\ termed[BootJob] # "none"
          /\ status' = [exited |-> FALSE, code |-> NoRc]
    /\ proc' = [proc EXCEPT ![BootJob] = "zombie"]
    /\ UNCHANGED << mainVars, sigVars, regVars, timer, timed_out, bootlog,
                    jpc, jcmd, jrc, termed, ran, futures, logw >>
    /\ UNCHANGED text

\* rc = os.WEXITSTATUS(status) if os.WIFEXITED(status) else 1
BootRc(st) == IF st.exited THEN st.code ELSE 1

\* timer.cancel() has no effect on a timer that already fired
TimerCancelled(t) == IF t = "armed" THEN "cancelled" ELSE t

\* the read loop ends at end of stream / OSError (the child closed the
\* pty); finally: timer.cancel(), os.close(fd); then os.waitpid(pid, 0)
BRead ==
    /\ jpc[BootJob] = "b_read"
    /\ proc[BootJob] = "zombie"
    /\ timer' = TimerCancelled(timer)
    /\ proc' = [proc EXCEPT ![BootJob] = "gone"]
    /\ jrc' = [jrc EXCEPT ![BootJob] = BootRc(status)]
    /\ jpc' = [jpc EXCEPT ![BootJob] = "b_acq_rm"]
    /\ UNCHANGED << mainVars, sigVars, regVars, timed_out, status, bootlog,
                    jcmd, termed, ran, futures, logw >>
    /\ UNCHANGED text

\* a variant: the exit status is returned whether the watchdog fired or not
RunVngBootRcOfStatus(rc) == rc

\* "if timed_out.is_set(): return 1, output + marker" else "return rc, output"
RunVngBootRc(rc) == IF timed_out THEN 1 ELSE rc

\* the same statement: "\n[boot timed out]\n" is appended to the output
RunVngBootMarker == timed_out

\* a variant: the code of _run_vng_boot is returned as it is
BootTestRcUnchecked(rc, uname) == rc

\* boot_test after _run_vng_boot: the uname line is looked up in the
\* transcript; "if boot_rc == 0 and not uname_output: boot_rc = 1"
BootTestRc(rc, uname) == IF rc = 0 /\ ~uname THEN 1 ELSE rc

\* a line of the transcript is a sequence of words (a blank word is
\* whitespace at an end of the line, "ESC[1m" an ANSI sequence):
\* ANSI_RE.sub("", ...) drops the sequences, line.strip() the blanks
UnameLine(line) == Strip(SelectSeq(line, LAMBDA w : w # "ESC[1m"))

\* re.match(r"Linux\s+\S+\s+\S+\s+#\d+\s+.*\s+GNU/Linux$", line): "Linux",
\* two words, "#" and digits, at least one more word, "GNU/Linux" at the end
UnameMatch(l) ==
    /\ Len(l) >= 6
    /\ l[1] = "Linux"
    /\ l[4] \in {"#1", "#2"}
    /\ l[Len(l)] = "GNU/Linux"

\* a variant: the first matching line is taken
RECURSIVE UnameOutputFirst(_)
UnameOutputFirst(lines) ==
    IF lines = << >> THEN << >>
    ELSE IF UnameMatch(UnameLine(Head(lines))) THEN UnameLine(Head(lines))
    ELSE UnameOutputFirst(Tail(lines))

\* "for line in reversed(clean.splitlines()): line = line.strip(); if
\* re.match(...): uname_output = line; break", uname_output = "" before it
RECURSIVE uname_output(_)
uname_output(lines) ==
    IF lines = << >> THEN << >>
    ELSE IF UnameMatch(UnameLine(lines[Len(lines)])) THEN UnameLine(lines[Len(lines)])
    ELSE uname_output(SubSeq(lines, 1, Len(lines) - 1))

\* what _run_vng_boot returns as output: what the child printed and, if
\* timed_out is set, "\n[boot timed out]\n" after it
BootOutput(lines) ==
    IF timed_out THEN lines \o << << "[boot", "timed", "out]" >> >> ELSE lines

\* does boot_test find a uname line: computed from the transcript when text
\* holds the lines the child prints, else either
UnameFound ==
    IF text.pc = "boot" THEN { uname_output(BootOutput(text.a)) # << >> } ELSE BOOLEAN

\* text then keeps the uname_output boot_test returns
BootTextAfter ==
    IF text.pc = "boot"
    THEN [text EXCEPT !.pc = "booted", !.out = uname_output(BootOutput(text.a))]
    ELSE text

\* _child_pids.remove(pid) under the lock; _run_vng_boot returns and
\* boot_test scans the transcript (which holds a uname line or does not)
BRemove ==
    /\ jpc[BootJob] = "b_rm"
    /\ lock = BootJob
    /\ child_pids' = Remove(child_pids, Child(BootJob))
    /\ removed' = removed \cup {Child(BootJob)}
    /\ lock' = NoThread
    /\ \E uname \in UnameFound :
          /\ futures' = [futures EXCEPT ![BootJob] =
                 Returned(BootTestRc(RunVngBootRc(jrc[BootJob]), uname), uname)]
          /\ bootlog' = Transcript(uname, RunVngBootMarker)
    /\ jpc' = [jpc EXCEPT ![BootJob] = "done"]
    /\ UNCHANGED << mainVars, timer, timed_out, status, shutdown, hstack, nint,
                    child_procs, jcmd, jrc, proc, termed, ran, logw >>
    /\ text' = BootTextAfter

\* the watchdog thread, BOOT_TIMEOUT after timer.start(): timed_out.set() ...
TimerFire ==
    /\ timer = "armed"
    /\ timer' = "set"
    /\ timed_out' = TRUE
    /\ UNCHANGED << mainVars, sigVars, regVars, jobVars, status, bootlog >>
    /\ UNCHANGED text

\* a variant: the watchdog kills every child that runs
KillEveryChild(t) == [j \in DOMAIN t |-> IF proc[j] = "running" THEN "KILL" ELSE t[j]]

\* os.kill(pid, signal.SIGKILL) on the pid forkpty returned: the boot child
\* if it still runs, ProcessLookupError passed over
KillOnTimeout(t) == IF proc[BootJob] = "running"
                    THEN [t EXCEPT ![BootJob] = "KILL"] ELSE t

\* ... then the kill
TimerKill ==
    /\ timer = "set"
    /\ timer' = "fired"
    /\ termed' = KillOnTimeout(termed)
    /\ UNCHANGED << mainVars, sigVars, regVars, timed_out, status, bootlog,
                    jpc, jcmd, jrc, proc, ran, futures, logw >>
    /\ UNCHANGED text

(* ------------------------------ a job's log ----------------------------- *)
\* the "# cmd:" lines a job has written: the one of a command is written
\* before run_and_log is called for it, so the job has written those of its
\* commands up to the one it is at
MarkersWritten(j) ==
    IF jpc[j] = "idle" THEN 0
    ELSE IF jcmd[j] > Len(Commands(j)) THEN Len(Commands(j)) ELSE jcmd[j]

\* the log file of job j as written so far: the header; per command its
\* "# cmd:" line and, once run_and_log copied it, the command's output; for
\* the boot job the lines boot_test appends after _run_vng_boot returned
RECURSIVE BuildPhaseLines(_, _)
BuildPhaseLines(j, n) ==
    IF n = 0 THEN << >>
    ELSE BuildPhaseLines(j, n - 1)
         \o << [line |-> "cmd", cmd |-> Commands(j)[n]] >>
         \o (IF n <= Len(ran[j]) /\ ran[j][n].rc # NoRc
             THEN << [line |-> "output", cmd |-> Commands(j)[n]] >> ELSE << >>)

VngRun == << "vng", "-r" >>

JobLog(j) ==
    << [line |-> "header", cmd |-> << >>] >>
    \o BuildPhaseLines(j, MarkersWritten(j))
    \o (IF j = BootJob /\ bootlog.written
        THEN << [line |-> "cmd", cmd |-> VngRun], [line |-> "transcript", cmd |-> VngRun] >>
        ELSE << >>)

(* ---------------------------- _sigint_handler --------------------------- *)
Registry == Range(child_procs) \cup Range(child_pids)

\* one invocation of the handler: its position, the registry when it was
\* entered and, once it has walked the registry, what that pass did
NewFrame(entry) ==
    [pc |-> "acquire", entry |-> entry, walked |-> {}, sent |-> {},
     delivered |-> {}, reaped |-> {}]

\* SIGINT is delivered: Python runs the handler on the main thread, on top of
\* whatever it was executing (an earlier handler invocation included);
\* its first statement is _shutdown.set()
Interrupt ==
    /\ handler
    /\ mpc \notin {"exit", "done"}
    /\ nint < MaxInterrupts
    /\ nint' = nint + 1
    /\ shutdown' = TRUE
    /\ hstack' = Append(hstack, NewFrame(Registry))
    /\ UNCHANGED << mainVars, regVars, jobVars, bootVars, removed >>
    /\ UNCHANGED text

Top == hstack[Len(hstack)]
SetTop(pc) == [hstack EXCEPT ![Len(hstack)].pc = pc]

\* the termination pass of the invocation on top, recorded in its frame
SetPass(walked, sent, delivered) ==
    [hstack EXCEPT ![Len(hstack)] =
        [@ EXCEPT !.pc = "release", !.walked = walked, !.sent = sent,
                  !.delivered = delivered, !.reaped = removed]]

\* "with _child_procs_lock:" in the handler; the lock is not reentrant
HAcquire ==
    /\ hstack # << >>
    /\ Top.pc = "acquire"
    /\ CanEnter(MainThread)
    /\ lock' = MainThread
    /\ hstack' = SetTop("traverse")
    /\ UNCHANGED << mainVars, jobVars, bootVars, child_procs, child_pids,
                    shutdown, nint, removed >>
    /\ UNCHANGED text

\* a registry entry whose process still exists: kill reaches it; for any
\* other entry kill raises ProcessLookupError
Alive(c) == proc[c[1]] = "running" /\ jcmd[c[1]] = c[2]

\* a variant: one try/except around both loops, so that the first entry
\* that is already gone ends the pass
KillPassOneTry(entries) ==
    { entries[i] : i \in { n \in 1..Len(entries) :
                              \A m \in 1..(n - 1) : Alive(entries[m]) } }

\* the two for loops: kill is called on every entry, in list order; each
\* call sits in its own try/except (ProcessLookupError, OSError): pass
KillPass(entries) == { entries[i] : i \in 1..Len(entries) }

HTraverse ==
    /\ hstack # << >>
    /\ Top.pc = "traverse"
    /\ LET sent == KillPass(child_procs \o child_pids)
       IN /\ hstack' = SetPass(Registry, sent, { c \in sent : Alive(c) })
          /\ termed' = [j \in Jobs |->
                 IF Child(j) \in sent /\ Alive(Child(j)) /\ termed[j] = "none"
                 THEN "TERM" ELSE termed[j]]
    /\ UNCHANGED << mainVars, regVars, bootVars, shutdown, nint, removed,
                    jpc, jcmd, jrc, proc, ran, futures, logw >>
    /\ UNCHANGED text

\* leaving the with block
HRelease ==
    /\ hstack # << >>
    /\ Top.pc = "release"
    /\ lock' = NoThread
    /\ hstack' = SetTop("raise")
    /\ UNCHANGED << mainVars, jobVars, bootVars, child_procs, child_pids,
                    shutdown, nint, removed >>
    /\ UNCHANGED text

(* --------------------------------- main --------------------------------- *)
\* an exception: its type, the code of a SystemExit, its message and, for
\* one raised "from" a CalledProcessError, the stderr that error holds
NoExc == [type |-> "none", code |-> NoRc, msg |-> << >>, stderr |-> << >>]
SystemExit(code) == [type |-> "SystemExit", code |-> code, msg |-> << >>, stderr |-> << >>]
KeyboardInterrupt ==
    [type |-> "KeyboardInterrupt", code |-> NoRc, msg |-> << >>, stderr |-> << >>]
ClickException ==
    [type |-> "ClickException", code |-> NoRc, msg |-> << >>, stderr |-> << >>]
UsageError == [type |-> "UsageError", code |-> NoRc, msg |-> << >>, stderr |-> << >>]
OSError == [type |-> "OSError", code |-> NoRc, msg |-> << >>, stderr |-> << >>]

\* what git writes to stderr: texts of up to MaxStderr characters, a
\* character being a blank or not
StderrChars == {" ", "e"}
Stderrs == UNION { [1..n -> StderrChars] : n \in 0..MaxStderr }

\* a variant: the message names the revision only
WorktreeMessageBare(stderr) == << "failed to create worktree for rev" >>

\* msg = f"failed to create worktree for {rev}"; if exc.stderr:
\* msg += f"\n{exc.stderr.strip()}"
WorktreeMessage(stderr) ==
    << "failed to create worktree for rev" >> \o
    (IF stderr # << >> THEN << "\n" >> \o Strip(stderr) ELSE << >>)

\* raise click.ClickException(msg) from exc
WorktreeError(stderr) ==
    [ClickException EXCEPT !.msg = WorktreeMessage(stderr), !.stderr = stderr]

\* where the ExitStack's unwinding goes once every worktree on it was handled
AfterUnwind(e) == IF e = NoExc THEN "report" ELSE "finally"

\* a variant: the worktrees on the stack are not released
NoUnwind(n, e) == AfterUnwind(e)

\* leaving "with ExitStack() as stack" with n worktrees on the stack
StartUnwind(n, e) == IF n = 0 THEN AfterUnwind(e) ELSE "unwind"

\* check_vng, check_git_repo, check_clean_tree, resolve_rev_short (twice),
\* rev-list --count, run_checkpatch: all before the handler is installed
Prechecks == {"ok", "no_vng", "not_a_repo", "dirty", "bad_revision", "checkpatch"}

\* raise click.UsageError(...) names what was wrong; sys.exit(2) follows a
\* message printed to stderr
PrecheckExc(outcome) ==
    CASE outcome \in {"no_vng", "not_a_repo", "dirty"} ->
            [UsageError EXCEPT !.msg = << outcome >>]
      [] outcome \in {"bad_revision", "checkpatch"} -> SystemExit(2)
      [] OTHER -> NoExc

\* a variant: main goes on to its work whatever the checks found
AfterPrecheckGoesOn(e) == "install"

\* an exception raised by a check leaves main at once
AfterPrecheck(e) == IF e = NoExc THEN "install" ELSE "exit"

MPrecheck ==
    /\ mpc = "pre"
    /\ \E outcome \in Prechecks :
          /\ exc' = PrecheckExc(outcome)
          /\ mpc' = AfterPrecheck(PrecheckExc(outcome))
    /\ UNCHANGED << wtidx, sidx, wt, released, tmp, handler, exitCode,
                    build_failed, results, boot_ok,
                    sigVars, regVars, jobVars, bootVars >>
    /\ UNCHANGED << text, ws >>

\* _shutdown.clear(); prev_handler = signal.signal(SIGINT, _sigint_handler)
MInstall ==
    /\ mpc = "install"
    /\ shutdown' = FALSE
    /\ handler' = TRUE
    /\ mpc' = "mktmp"
    /\ UNCHANGED << exc, wtidx, sidx, wt, released, tmp, exitCode,
                    build_failed, results, boot_ok,
                    hstack, nint, removed, regVars, jobVars, bootVars >>
    /\ UNCHANGED << text, ws >>

\* tmp = Path(tempfile.mkdtemp(prefix="patchlint-logs-"))
MMktmp ==
    /\ mpc = "mktmp"
    /\ MainRuns
    /\ tmp' = "exists"
    /\ wtidx' = 1
    /\ mpc' = "wt_mkdtemp"
    /\ UNCHANGED << exc, sidx, wt, released, handler, exitCode,
                    build_failed, results, boot_ok,
                    sigVars, regVars, jobVars, bootVars >>
    /\ UNCHANGED << text, ws >>

\* the revision the n-th worktree is made for: baseline, or "HEAD" for the
\* candidate's and the boot's
Rev(n) == IF JobOrder(n)[1] = "baseline" THEN "baseline" ELSE "HEAD"

\* the directories of the run's worktrees that exist
Existing == { ws.dir[k] : k \in { n \in 1..NumJobs : wt[n] \in {"dir", "ready"} } }

\* a variant: one directory per revision
WorktreePerRevision(rev) == IF rev = "baseline" THEN 1 ELSE 2

\* tempfile.mkdtemp creates a directory under a name no existing entry has
\* (names are numbers here; it takes the least free one, whatever the revision)
Mkdtemp(rev) == CHOOSE d \in 1..(NumJobs + 1) :
                    d \notin Existing /\ \A e \in 1..(d - 1) : e \in Existing

\* git_worktree: wt = Path(tempfile.mkdtemp(prefix="patchlint-", ...))
MWtMkdtemp ==
    /\ mpc = "wt_mkdtemp"
    /\ MainRuns
    /\ wt' = [wt EXCEPT ![wtidx] = "dir"]
    /\ ws' = [ws EXCEPT !.dir[wtidx] = Mkdtemp(Rev(wtidx))]
    /\ mpc' = "wt_add"
    /\ UNCHANGED << exc, wtidx, sidx, released, tmp, handler, exitCode,
                    build_failed, results, boot_ok,
                    sigVars, regVars, jobVars, bootVars >>
    /\ UNCHANGED text

\* git_worktree: "git worktree add --detach"; on CalledProcessError the
\* directory is removed and ClickException raised, else the body is entered
MWtAdd ==
    /\ mpc = "wt_add"
    /\ MainRuns
    /\ \E ok \in BOOLEAN :
          IF ok
          THEN /\ wt' = [wt EXCEPT ![wtidx] = "ready"]
               /\ IF wtidx = NumJobs
                  THEN /\ mpc' = "submit"
                       /\ UNCHANGED wtidx
                  ELSE /\ mpc' = "wt_mkdtemp"
                       /\ wtidx' = wtidx + 1
               /\ UNCHANGED exc
          ELSE /\ wt' = [wt EXCEPT ![wtidx] = "removed"]
               /\ \E stderr \in Stderrs : exc' = WorktreeError(stderr)
               /\ wtidx' = wtidx - 1
               /\ mpc' = StartUnwind(wtidx - 1, ClickException)
    /\ UNCHANGED << sidx, released, tmp, handler, exitCode,
                    build_failed, results, boot_ok,
                    sigVars, regVars, jobVars, bootVars >>
    /\ UNCHANGED << text, ws >>

\* pool.submit(build_config, ...) / pool.submit(boot_test, ...): a worker
\* thread starts on the job at once (max_workers = number of jobs)
\* b_log = tmp / "baseline" / f"{cfg}.log", c_log = tmp / "candidate" /
\* f"{cfg}.log", boot_log = tmp / "candidate" / "defconfig-boot.log"
LogPath(j) ==
    IF j = BootJob THEN << "candidate", "defconfig-boot.log" >>
    ELSE << j[1], ConfigName(j[2]), ".log" >>

MSubmit ==
    /\ mpc = "submit"
    /\ MainRuns
    /\ futures' = [futures EXCEPT ![JobOrder(sidx)] = Pending]
    /\ ws' = [ws EXCEPT !.cwd[JobOrder(sidx)] = ws.dir[sidx],
                        !.log[JobOrder(sidx)] = LogPath(JobOrder(sidx))]
    /\ jpc' = [jpc EXCEPT ![JobOrder(sidx)] = "check"]
    /\ jcmd' = [jcmd EXCEPT ![JobOrder(sidx)] = 1]
    /\ IF sidx = NumJobs
       THEN /\ mpc' = "poolwait"
            /\ UNCHANGED sidx
       ELSE /\ sidx' = sidx + 1
            /\ UNCHANGED mpc
    /\ UNCHANGED << exc, wtidx, wt, released, tmp, handler, exitCode,
                    build_failed, results, boot_ok,
                    sigVars, regVars, bootVars, jrc, proc, termed, ran, logw >>
    /\ UNCHANGED text

Submitted == { j \in Jobs : futures[j].st # "unsubmitted" }

\* a variant: the pool is left without joining its workers
WorkersNotJoined == TRUE

\* shutdown(wait=True): every worker thread has ended
WorkersJoined == \A j \in Submitted : jpc[j] = "done"

\* ThreadPoolExecutor.__exit__: shutdown(wait=True) joins every worker
MPoolWait ==
    /\ mpc = "poolwait"
    /\ MainRuns
    /\ WorkersJoined
    /\ mpc' = IF exc = NoExc THEN "collect" ELSE StartUnwind(NumJobs, exc)
    /\ wtidx' = NumJobs
    /\ UNCHANGED << exc, sidx, wt, released, tmp, handler, exitCode,
                    build_failed, results, boot_ok,
                    sigVars, regVars, jobVars, bootVars >>
    /\ UNCHANGED << text, ws >>

\* a variant: the loop reports a failed build and does not set build_failed
BuildFailureDropped == FALSE

\* "rc = fut.result(); if rc != 0: ... build_failed = True" over the build futures
BuildFailed == \E j \in BuildJobs : futures[j].rc # 0

\* fut.result() re-raises what the worker raised
SomeRaised(js) == \E j \in js : futures[j].st \in {"raised", "errored"}

\* the loop takes the futures in the order they were submitted: the first
\* one that raised ends it, with the exception its worker raised
ResultExc(js) ==
    LET first == CHOOSE n \in 1..NumJobs :
                    /\ JobOrder(n) \in js /\ SomeRaised({JobOrder(n)})
                    /\ \A m \in 1..(n - 1) : JobOrder(m) \in js => ~SomeRaised({JobOrder(m)})
    IN IF futures[JobOrder(first)].st = "raised" THEN KeyboardInterrupt ELSE OSError

\* the "Collect results" loop, then "if build_failed: sys.exit(2)"
MCollect ==
    /\ mpc = "collect"
    /\ MainRuns
    /\ IF SomeRaised(BuildJobs)
       THEN /\ exc' = ResultExc(BuildJobs)
            /\ mpc' = "unwind"
            /\ UNCHANGED build_failed
       ELSE /\ build_failed' = BuildFailed
            /\ IF BuildFailed
               THEN /\ exc' = SystemExit(2)
                    /\ mpc' = "unwind"
               ELSE /\ mpc' = "compare"
                    /\ UNCHANGED exc
    /\ UNCHANGED << wtidx, sidx, wt, released, tmp, handler, exitCode,
                    results, boot_ok, sigVars, regVars, jobVars, bootVars >>
    /\ UNCHANGED << text, ws >>

\* a variant that also reports what only the baseline has
CompareWarningsEitherWay(base, cand) == (cand \ base) \cup (base \ cand)

\* compare_warnings: sorted(set(cand_warnings) - set(base_warnings))
CompareWarnings(base, cand) == cand \ base

\* "for cfg in WARN_CONFIGS: results[cfg] = compare_warnings(...)"
MCompare ==
    /\ mpc = "compare"
    /\ MainRuns
    /\ results' = [c \in WARN_CONFIGS |->
                      CompareWarnings(logw[<< "baseline", c >>], logw[<< "candidate", c >>])]
    /\ mpc' = "bootres"
    /\ UNCHANGED << exc, wtidx, sidx, wt, released, tmp, handler, exitCode,
                    build_failed, boot_ok, sigVars, regVars, jobVars, bootVars >>
    /\ UNCHANGED << text, ws >>

\* "boot_rc, uname_output = futures['boot'].result(); boot_ok = boot_rc == 0";
\* the with ExitStack block ends here
MBootRes ==
    /\ mpc = "bootres"
    /\ MainRuns
    /\ IF SomeRaised({BootJob})
       THEN /\ exc' = ResultExc({BootJob})
            /\ UNCHANGED boot_ok
       ELSE /\ boot_ok' = IF futures[BootJob].rc = 0 THEN "ok" ELSE "failed"
            /\ UNCHANGED exc
    /\ mpc' = "unwind"
    /\ UNCHANGED << wtidx, sidx, wt, released, tmp, handler, exitCode,
                    build_failed, results, sigVars, regVars, jobVars, bootVars >>
    /\ UNCHANGED << text, ws >>

\* a variant: a removal that failed is raised as an error
RemoveFailureRaised(e, ok) == IF ok THEN e ELSE ClickException

\* "if rm_result.returncode != 0: click.secho(...)": subprocess.run is called
\* without check, the warning is printed and what propagates stays as it is
RemoveFailureWarned(e, ok) == e

\* git_worktree's finally, run by the ExitStack for the worktree on top:
\* "git worktree remove --force"; a non-zero return code is only warned about
MUnwind ==
    /\ mpc = "unwind"
    /\ MainRuns
    /\ released' = released \cup {wtidx}
    /\ \E ok \in BOOLEAN :
          /\ wt' = [wt EXCEPT ![wtidx] = IF ok THEN "removed" ELSE @]
          /\ exc' = RemoveFailureWarned(exc, ok)
    /\ wtidx' = wtidx - 1
    /\ mpc' = StartUnwind(wtidx - 1, exc)
    /\ UNCHANGED << sidx, tmp, handler, exitCode,
                    build_failed, results, boot_ok,
                    sigVars, regVars, jobVars, bootVars >>
    /\ UNCHANGED << text, ws >>

\* a variant: the verdict looks at the warnings only
HasFailuresWarningsOnly == \E c \in DOMAIN results : results[c] # {}

\* "has_failures = any(results[cfg] for cfg in results) or not boot_ok"
HasFailures == (\E c \in DOMAIN results : results[c] # {}) \/ boot_ok # "ok"

\* a variant: the log directory is removed whatever the verdict
TmpAlwaysRemoved(failures) == "removed"

\* "if has_failures: click.echo(logs) else: shutil.rmtree(tmp, ...)"
TmpAfterReport(failures) == IF failures THEN tmp ELSE "removed"

\* the blurb is printed; logs are kept on failure, else removed; sys.exit
MReport ==
    /\ mpc = "report"
    /\ MainRuns
    /\ tmp' = TmpAfterReport(HasFailures)
    /\ exc' = SystemExit(IF HasFailures THEN 1 ELSE 0)
    /\ mpc' = "finally"
    /\ UNCHANGED << wtidx, sidx, wt, released, handler, exitCode,
                    build_failed, results, boot_ok,
                    sigVars, regVars, jobVars, bootVars >>
    /\ UNCHANGED << text, ws >>

\* finally: signal.signal(signal.SIGINT, prev_handler)
MFinally ==
    /\ mpc = "finally"
    /\ MainRuns
    /\ handler' = FALSE
    /\ mpc' = "exit"
    /\ UNCHANGED << exc, wtidx, sidx, wt, released, tmp, exitCode,
                    build_failed, results, boot_ok,
                    sigVars, regVars, jobVars, bootVars >>
    /\ UNCHANGED << text, ws >>

\* click's standalone mode: SystemExit keeps its code, UsageError exits 2,
\* ClickException exits 1, KeyboardInterrupt becomes Abort and exits 1; any
\* other exception is not caught: the interpreter prints the traceback and
\* exits 1
ExitCodeOf(e) ==
    CASE e.type = "SystemExit" -> e.code
      [] e.type = "UsageError" -> 2
      [] OTHER -> 1

MExit ==
    /\ mpc = "exit"
    /\ exitCode' = ExitCodeOf(exc)
    /\ mpc' = "done"
    /\ UNCHANGED << exc, wtidx, sidx, wt, released, tmp, handler,
                    build_failed, results, boot_ok,
                    sigVars, regVars, jobVars, bootVars >>
    /\ UNCHANGED << text, ws >>

\* where KeyboardInterrupt, raised by the handler, takes main from position pc
InterruptedTo(pc) ==
    CASE pc = "mktmp" -> "finally"
      [] pc = "wt_mkdtemp" -> StartUnwind(wtidx - 1, KeyboardInterrupt)
      [] pc = "wt_add" -> StartUnwind(wtidx - 1, KeyboardInterrupt)
      [] pc = "submit" -> "poolwait"
      [] pc = "poolwait" -> StartUnwind(NumJobs, KeyboardInterrupt)
      [] pc \in {"collect", "compare", "bootres"} -> StartUnwind(NumJobs, KeyboardInterrupt)
      [] pc = "unwind" -> StartUnwind(wtidx - 1, KeyboardInterrupt)
      [] pc = "report" -> "finally"
      [] pc = "finally" -> "exit"

\* "raise KeyboardInterrupt": it unwinds every handler invocation below it and
\* then main, from the statement main was at.  Raised inside subprocess.run
\* of "git worktree add", the new directory stays: git_worktree removes it
\* only on CalledProcessError.  Raised inside the join of the pool's
\* __exit__, main leaves the pool without waiting for the workers.  Raised
\* inside "git worktree remove", that removal is cut short and the ExitStack
\* goes on to the next worktree.
HRaise ==
    /\ hstack # << >>
    /\ Top.pc = "raise"
    /\ hstack' = << >>
    /\ exc' = KeyboardInterrupt
    /\ mpc' = InterruptedTo(mpc)
    /\ wtidx' = CASE mpc \in {"wt_mkdtemp", "wt_add", "unwind"} -> wtidx - 1
                  [] mpc \in {"poolwait", "collect", "compare", "bootres"} -> NumJobs
                  [] OTHER -> wtidx
    /\ released' = IF mpc = "unwind" THEN released \cup {wtidx} ELSE released
    /\ IF mpc = "unwind"
       THEN \E gone \in BOOLEAN : wt' = [wt EXCEPT ![wtidx] = IF gone THEN "removed" ELSE @]
       ELSE UNCHANGED wt
    /\ UNCHANGED << sidx, tmp, handler, exitCode, build_failed, results, boot_ok,
                    shutdown, nint, removed, regVars, jobVars, bootVars >>
    /\ UNCHANGED << text, ws >>

(* ------------------------- the warning functions ------------------------- *)
\* A line of a build log is a sequence of characters, each a token: "ESC" is
\* the escape character \x1B, "U+0663" the Arabic-Indic digit three (a
\* decimal digit that is not one of 0-9).
Esc == "ESC"

\* what \s matches
Spaces == { " ", "\t", "\n" }

\* what [0-9] matches
AsciiDigits == { "1", "2" }

\* what \d matches in a str pattern: every Unicode decimal digit
Digits == AsciiDigits \cup { "U+0663" }

\* what [A-Za-z] matches
Letters ==
    { "C", "E", "I", "L", "N", "O", "W", "a", "g", "i", "m", "n", "r", "w", "x" }

\* the code point of each character, the order sorted() compares by
CodePoint ==
    [ch \in { "\t", "\n", Esc, " ", ".", "/", "1", "2", ":", ";", "[", "U+0663" }
            \cup Letters |->
        CASE ch = "\t" -> 9   [] ch = "\n" -> 10  [] ch = Esc -> 27
          [] ch = " " -> 32   [] ch = "." -> 46   [] ch = "/" -> 47
          [] ch = "1" -> 49   [] ch = "2" -> 50   [] ch = ":" -> 58
          [] ch = ";" -> 59   [] ch = "C" -> 67   [] ch = "E" -> 69
          [] ch = "I" -> 73   [] ch = "L" -> 76   [] ch = "N" -> 78
          [] ch = "O" -> 79   [] ch = "W" -> 87   [] ch = "[" -> 91
          [] ch = "a" -> 97   [] ch = "g" -> 103  [] ch = "i" -> 105
          [] ch = "m" -> 109  [] ch = "n" -> 110  [] ch = "r" -> 114
          [] ch = "w" -> 119  [] ch = "x" -> 120  [] ch = "U+0663" -> 1635]

\* re.IGNORECASE compares characters by their lower case
Lower(ch) ==
    CASE ch = "C" -> "c" [] ch = "E" -> "e" [] ch = "I" -> "i"
      [] ch = "L" -> "l" [] ch = "N" -> "n" [] ch = "O" -> "o"
      [] ch = "W" -> "w" [] OTHER -> ch

From(s, i) == SubSeq(s, i, Len(s))

\* the first index from i on whose character is not in class (Len(s)+1 if none)
RECURSIVE SkipClass(_, _, _)
SkipClass(s, i, class) ==
    IF i <= Len(s) /\ s[i] \in class THEN SkipClass(s, i + 1, class) ELSE i

\* does lit stand at index i of s, case ignored
LiteralAt(s, i, lit) ==
    /\ i + Len(lit) - 1 <= Len(s)
    /\ \A k \in 1..Len(lit) : Lower(s[i + k - 1]) = Lower(lit[k])

WarningWord == << "w", "a", "r", "n", "i", "n", "g", ":" >>

\* ANSI_RE matched at the head of s: the index of its last character, or 0
AnsiEnd(s) ==
    IF Len(s) >= 3 /\ s[1] = Esc /\ s[2] = "["
    THEN LET k == SkipClass(s, 3, AsciiDigits \cup { ";" })
         IN  IF k <= Len(s) /\ s[k] \in Letters THEN k ELSE 0
    ELSE 0

\* ANSI_RE.sub("", s)
RECURSIVE AnsiSub(_)
AnsiSub(s) ==
    IF s = << >> THEN << >>
    ELSE LET k == AnsiEnd(s)
         IN  IF k > 0 THEN AnsiSub(From(s, k + 1))
             ELSE << Head(s) >> \o AnsiSub(Tail(s))

\* re.sub(r"\s+", " ", s)
RECURSIVE CollapseSpaces(_)
CollapseSpaces(s) ==
    IF s = << >> THEN << >>
    ELSE IF Head(s) \in Spaces
         THEN << " " >> \o CollapseSpaces(From(s, SkipClass(s, 1, Spaces)))
         ELSE << Head(s) >> \o CollapseSpaces(Tail(s))

\* str.rstrip()
RECURSIVE RStripSpaces(_)
RStripSpaces(s) ==
    IF s # << >> /\ s[Len(s)] \in Spaces
    THEN RStripSpaces(SubSeq(s, 1, Len(s) - 1)) ELSE s

\* re.sub(r"(^|\s)\./", r"\1", s); "^" matches at the start of the line only
RECURSIVE DotSlashSub(_, _)
DotSlashSub(s, atStart) ==
    IF s = << >> THEN << >>
    ELSE IF atStart /\ Len(s) >= 2 /\ s[1] = "." /\ s[2] = "/"
         THEN DotSlashSub(From(s, 3), FALSE)
    ELSE IF Len(s) >= 3 /\ s[1] \in Spaces /\ s[2] = "." /\ s[3] = "/"
         THEN << s[1] >> \o DotSlashSub(From(s, 4), FALSE)
    ELSE << Head(s) >> \o DotSlashSub(Tail(s), FALSE)

\* r"\s*:\s*warning:" matched from index i of s: the index of its last
\* character, or 0
WarningTailEnd(s, i) ==
    LET c == SkipClass(s, i, Spaces)
    IN  IF c <= Len(s) /\ s[c] = ":"
        THEN LET w == SkipClass(s, c + 1, Spaces)
             IN  IF LiteralAt(s, w, WarningWord) THEN w + Len(WarningWord) - 1
                 ELSE 0
        ELSE 0

\* r":[0-9]+" matched at the head of s: the index after it, or 0
NumberEnd(s, i) ==
    IF i <= Len(s) /\ s[i] = ":"
    THEN LET d == SkipClass(s, i + 1, AsciiDigits)
         IN  IF d > i + 1 THEN d ELSE 0
    ELSE 0

\* WARNING_LOC_COLON_RE.sub(r":LINE:COL\2", s)
RECURSIVE WarningLocColonSub(_)
WarningLocColonSub(s) ==
    IF s = << >> THEN << >>
    ELSE LET l == NumberEnd(s, 1)
             c == IF l > 0 THEN NumberEnd(s, l) ELSE 0
             e == IF c > 0 THEN WarningTailEnd(s, c) ELSE 0
         IN  IF e > 0
             THEN << ":", "L", "I", "N", "E", ":", "C", "O", "L" >>
                    \o SubSeq(s, c, e) \o WarningLocColonSub(From(s, e + 1))
             ELSE << Head(s) >> \o WarningLocColonSub(Tail(s))

\* WARNING_LOC_LINE_RE.sub(r":LINE\1", s)
RECURSIVE WarningLocLineSub(_)
WarningLocLineSub(s) ==
    IF s = << >> THEN << >>
    ELSE LET l == NumberEnd(s, 1)
             e == IF l > 0 THEN WarningTailEnd(s, l) ELSE 0
         IN  IF e > 0
             THEN << ":", "L", "I", "N", "E" >>
                    \o SubSeq(s, l, e) \o WarningLocLineSub(From(s, e + 1))
             ELSE << Head(s) >> \o WarningLocLineSub(Tail(s))

normalize_warning_line(line) ==
    WarningLocLineSub(WarningLocColonSub(
        DotSlashSub(RStripSpaces(CollapseSpaces(AnsiSub(line))), TRUE)))

\* r":\d+" matched at index i of s: the index after it, or 0
DecimalEnd(s, i) ==
    IF i <= Len(s) /\ s[i] = ":"
    THEN LET d == SkipClass(s, i + 1, Digits)
         IN  IF d > i + 1 THEN d ELSE 0
    ELSE 0

\* r":\s+warning:" stands at index i of s
WarningMarkAt(s, i) ==
    /\ i <= Len(s) /\ s[i] = ":"
    /\ LET w == SkipClass(s, i + 1, Spaces)
       IN  w > i + 1 /\ LiteralAt(s, w, WarningWord)

\* COMPILER_WARNING_RE.search(s): \S+ ends at some index p, then the location
\* with or without a column, then the mark
CompilerWarningSearch(s) ==
    \E p \in 1..Len(s) :
        /\ s[p] \notin Spaces
        /\ LET l == DecimalEnd(s, p + 1)
               c == IF l > 0 THEN DecimalEnd(s, l) ELSE 0
           IN  /\ l > 0
               /\ \/ WarningMarkAt(s, l)
                  \/ c > 0 /\ WarningMarkAt(s, c)

\* sorted(): by code point, a prefix before its extensions
RECURSIVE StrLess(_, _)
StrLess(s, t) ==
    IF t = << >> THEN FALSE
    ELSE IF s = << >> THEN TRUE
    ELSE IF Head(s) # Head(t) THEN CodePoint[Head(s)] < CodePoint[Head(t)]
    ELSE StrLess(Tail(s), Tail(t))

RECURSIVE Sorted(_)
Sorted(S) ==
    IF S = { } THEN << >>
    ELSE LET least == CHOOSE s \in S : \A t \in S \ { s } : StrLess(s, t)
         IN  << least >> \o Sorted(S \ { least })

\* the set extract_normalized_warnings collects: "for raw in lines: clean =
\* ANSI_RE.sub('', raw); if COMPILER_WARNING_RE.search(clean):
\* normalized.add(normalize_warning_line(raw))"
NormalizedSet(lines) ==
    { normalize_warning_line(lines[i]) :
        i \in { k \in 1..Len(lines) : CompilerWarningSearch(AnsiSub(lines[k])) } }

\* a variant that keeps the normalized lines as a list in input order
ExtractInInputOrder(lines) ==
    LET kept == SelectSeq(lines, LAMBDA l : CompilerWarningSearch(AnsiSub(l)))
    IN  [i \in 1..Len(kept) |-> normalize_warning_line(kept[i])]

extract_normalized_warnings(lines) == Sorted(NormalizedSet(lines))

\* "with baseline.open(...) as f": iterating a file gives each line with its
\* line terminator
ReadLines(file) == [i \in 1..Len(file) |-> file[i] \o << "\n" >>]

\* compare_warnings on the two logs' contents
compare_warnings(baseline, candidate) ==
    Sorted(CompareWarnings(NormalizedSet(ReadLines(baseline)),
                           NormalizedSet(ReadLines(candidate))))

(* --------------------------- the specification -------------------------- *)
\* no warning function is at work
TextIdle ==
    [pc |-> "idle", a |-> << >>, b |-> << >>, pair |-> FALSE, out |-> << >>,
     again |-> << >>]

\* no directory made, no job given its paths
NoPaths ==
    [dir |-> [n \in 1..NumJobs |-> 0], cwd |-> [j \in Jobs |-> 0],
     log |-> [j \in Jobs |-> << >>]]

InitProgram ==
    /\ mpc = "pre"
    /\ ws = NoPaths
    /\ exc = NoExc
    /\ wtidx = 0
    /\ sidx = 1
    /\ wt = [n \in 1..NumJobs |-> "none"]
    /\ released = {}
    /\ tmp = "none"
    /\ handler = FALSE
    /\ exitCode = NoRc
    /\ build_failed = FALSE
    /\ results = << >>
    /\ boot_ok = "unset"
    /\ shutdown = FALSE
    /\ hstack = << >>
    /\ nint = 0
    /\ child_procs = << >>
    /\ child_pids = << >>
    /\ lock = NoThread
    /\ removed = {}
    /\ jpc = [j \in Jobs |-> "idle"]
    /\ jcmd = [j \in Jobs |-> 0]
    /\ jrc = [j \in Jobs |-> NoRc]
    /\ proc = [j \in Jobs |-> "none"]
    /\ termed = [j \in Jobs |-> "none"]
    /\ ran = [j \in Jobs |-> << >>]
    /\ futures = [j \in Jobs |-> NoFuture]
    /\ logw = [j \in BuildJobs |-> {}]
    /\ timer = "off"
    /\ timed_out = FALSE
    /\ status = NoStatus
    /\ bootlog = NoTranscript

Init == InitProgram /\ text = TextIdle

MainStep ==
    \/ MPrecheck
    \/ MInstall
    \/ MMktmp
    \/ MWtMkdtemp
    \/ MWtAdd
    \/ MSubmit
    \/ MPoolWait
    \/ MCollect
    \/ MCompare
    \/ MBootRes
    \/ MUnwind
    \/ MReport
    \/ MFinally
    \/ MExit

\* main from the pool's __exit__ on
MainAfterSubmit ==
    \/ MPoolWait
    \/ MCollect
    \/ MCompare
    \/ MBootRes
    \/ MUnwind
    \/ MReport
    \/ MFinally
    \/ MExit

HandlerStep ==
    \/ Interrupt
    \/ HAcquire
    \/ HTraverse
    \/ HRelease
    \/ HRaise

WorkerStep ==
    \/ \E j \in Jobs : WCheck(j)
    \/ \E j \in Jobs : WPopen(j)
    \/ \E j \in Jobs : WAcquire(j)
    \/ \E j \in Jobs : WAdd(j)
    \/ \E j \in Jobs : WWait(j)
    \/ \E j \in Jobs : WRemove(j)
    \/ BCheck
    \/ BFork
    \/ BAdd
    \/ BootExit
    \/ BRead
    \/ BRemove
    \/ TimerFire
    \/ TimerKill

\* a run in which no SIGINT arrives
NextRun == MainStep \/ WorkerStep

SpecRun == Init /\ [][NextRun]_vars

\* the run once every job is submitted, at a moment when the last
\* ActiveBuilds build jobs and the boot job each have CommandsLeft commands
\* of their list left to run (the earlier ones returned 0) and the other
\* build jobs have returned 0: main is in the pool's __exit__ and no SIGINT
\* has arrived yet
StillRunning == { JobOrder(n) : n \in (NumJobs - ActiveBuilds)..NumJobs } \cap Jobs

\* the boot job's list ends with the boot itself, after its build commands
NumCommands(j) == IF j = BootJob THEN BootCmd ELSE Len(Commands(j))

FirstLeft(j) == IF j \in StillRunning THEN NumCommands(j) - CommandsLeft + 1
                ELSE NumCommands(j) + 1

InitSubmitted ==
    /\ mpc = "poolwait"
    /\ ws = [dir |-> [n \in 1..NumJobs |-> n],
             cwd |-> [j \in Jobs |-> CHOOSE n \in 1..NumJobs : JobOrder(n) = j],
             log |-> [j \in Jobs |-> LogPath(j)]]
    /\ exc = NoExc
    /\ wtidx = NumJobs
    /\ sidx = NumJobs
    /\ wt = [n \in 1..NumJobs |-> "ready"]
    /\ released = {}
    /\ tmp = "exists"
    /\ handler = TRUE
    /\ exitCode = NoRc
    /\ build_failed = FALSE
    /\ results = << >>
    /\ boot_ok = "unset"
    /\ shutdown = FALSE
    /\ hstack = << >>
    /\ nint = 0
    /\ child_procs = << >>
    /\ child_pids = << >>
    /\ lock = NoThread
    /\ removed = UNION { { << j, k >> : k \in 1..(FirstLeft(j) - 1) } : j \in Jobs }
    /\ jpc = [j \in Jobs |-> IF j \notin StillRunning THEN "done"
                            ELSE IF FirstLeft(j) = BootCmd /\ j = BootJob THEN "b_check"
                            ELSE "check"]
    /\ jcmd = [j \in Jobs |-> IF j \in StillRunning THEN FirstLeft(j) ELSE NumCommands(j)]
    /\ jrc = [j \in Jobs |-> IF FirstLeft(j) = 1 THEN NoRc ELSE 0]
    /\ proc = [j \in Jobs |-> IF FirstLeft(j) = 1 THEN "none" ELSE "gone"]
    /\ termed = [j \in Jobs |-> "none"]
    /\ ran = [j \in Jobs |->
                [k \in 1..(FirstLeft(j) - 1) |-> [cmd |-> Commands(j)[k], rc |-> 0]]]
    /\ futures = [j \in Jobs |-> IF j \in StillRunning THEN Pending ELSE Returned(0, FALSE)]
    /\ logw = [j \in BuildJobs |-> {}]
    /\ timer = "off"
    /\ timed_out = FALSE
    /\ status = NoStatus
    /\ bootlog = NoTranscript
    /\ text = TextIdle

\* the jobs running while SIGINT may arrive
NextSig == MainAfterSubmit \/ HandlerStep \/ WorkerStep

SpecSig == InitSubmitted /\ [][NextSig]_vars

\* main up to the hand-over to the pool, and its unwinding, while SIGINT
\* may arrive and before any worker thread has been scheduled
MainBeforeWorkers ==
    \/ MPrecheck
    \/ MInstall
    \/ MMktmp
    \/ MWtMkdtemp
    \/ MWtAdd
    \/ MSubmit
    \/ MPoolWait
    \/ MUnwind
    \/ MFinally
    \/ MExit

NextAcq == MainBeforeWorkers \/ HandlerStep

SpecAcq == Init /\ [][NextAcq]_vars

\* the whole program
Next == MainStep \/ HandlerStep \/ WorkerStep

Spec == Init /\ [][Next]_vars

\* scheduling: every thread that can take a step eventually takes one, a
\* running child eventually ends, an armed watchdog eventually fires;
\* nothing makes a SIGINT arrive
HandlerRuns == HAcquire \/ HTraverse \/ HRelease \/ HRaise

WorkerRuns(j) == WCheck(j) \/ WPopen(j) \/ WAcquire(j) \/ WAdd(j) \/ WWait(j) \/ WRemove(j)

BootRuns == BCheck \/ BFork \/ BAdd \/ BootExit \/ BRead \/ BRemove

Fairness ==
    /\ WF_vars(MainAfterSubmit)
    /\ WF_vars(HandlerRuns)
    /\ \A j \in Jobs : WF_vars(WorkerRuns(j))
    /\ WF_vars(BootRuns)
    /\ WF_vars(TimerFire \/ TimerKill)

FairSig == SpecSig /\ Fairness

\* the jobs running in the pool when no SIGINT arrives
NextPool == MainAfterSubmit \/ WorkerStep

SpecPool == InitSubmitted /\ [][NextPool]_vars

FairPool == SpecPool /\ Fairness

\* boot_test alone, from its first command on, while SIGINT may arrive: the
\* build jobs have ended, main waits in the pool's __exit__; the lines the
\* virtual machine prints are fixed from the start
BootLines ==
    { << "Linux", "vm", "6.1", "#1", "SMP", "GNU/Linux" >>,
      << "ESC[1m", " ", "Linux", "vm", "6.2", "#2", "SMP", "GNU/Linux", " " >>,
      << "Linux", "vm", "6.1", "SMP", "GNU/Linux" >>,
      << "Kernel", "panic" >> }

InitBootTest ==
    /\ mpc = "poolwait"
    /\ ws = [dir |-> [n \in 1..NumJobs |-> n],
             cwd |-> [j \in Jobs |-> CHOOSE n \in 1..NumJobs : JobOrder(n) = j],
             log |-> [j \in Jobs |-> LogPath(j)]]
    /\ exc = NoExc
    /\ wtidx = NumJobs
    /\ sidx = NumJobs
    /\ wt = [n \in 1..NumJobs |-> "ready"]
    /\ released = {}
    /\ tmp = "exists"
    /\ handler = TRUE
    /\ exitCode = NoRc
    /\ build_failed = FALSE
    /\ results = << >>
    /\ boot_ok = "unset"
    /\ shutdown = FALSE
    /\ hstack = << >>
    /\ nint = 0
    /\ child_procs = << >>
    /\ child_pids = << >>
    /\ lock = NoThread
    /\ removed = { << j, k >> : j \in BuildJobs, k \in 1..Len(BuildCommands("")) }
    /\ jpc = [j \in Jobs |-> IF j = BootJob THEN "check" ELSE "done"]
    /\ jcmd = [j \in Jobs |-> IF j = BootJob THEN 1 ELSE Len(Commands(j))]
    /\ jrc = [j \in Jobs |-> IF j = BootJob THEN NoRc ELSE 0]
    /\ proc = [j \in Jobs |-> IF j = BootJob THEN "none" ELSE "gone"]
    /\ termed = [j \in Jobs |-> "none"]
    /\ ran = [j \in Jobs |-> IF j = BootJob THEN << >>
                              ELSE [k \in 1..Len(Commands(j)) |-> [cmd |-> Commands(j)[k], rc |-> 0]]]
    /\ futures = [j \in Jobs |-> IF j = BootJob THEN Pending ELSE Returned(0, FALSE)]
    /\ logw = [j \in BuildJobs |-> {}]
    /\ timer = "off"
    /\ timed_out = FALSE
    /\ status = NoStatus
    /\ bootlog = NoTranscript
    /\ text \in { [pc |-> "boot", a |-> lines, b |-> << >>, pair |-> FALSE,
                    out |-> << >>, again |-> << >>] :
                  lines \in SeqsUpTo(BootLines, MaxBootLines) }

SpecBoot == InitBootTest /\ [][HandlerStep \/ WorkerStep]_vars

\* the same, with commands that may fail to start
SpecStart == InitSubmitted /\ [][NextPool \/ \E j \in Jobs : WPopenFails(j)]_vars

(* ------------------- the warning functions put to work ------------------- *)
\* the pieces a log line is built from around its location: a "./" prefix,
\* blanks, a letter, an ANSI colour sequence
AffixSegments ==
    { << ".", "/" >>, << " " >>, << "x" >>, << Esc, "[", "1", "m" >> }

RECURSIVE Affixes(_)
Affixes(n) ==
    IF n = 0 THEN { << >> }
    ELSE Affixes(n - 1) \cup { s \o g : s \in Affixes(n - 1), g \in AffixSegments }

\* line and column numbers as a log may hold them
Numbers == { << "1" >>, << "2" >>, << "1", "2" >>, << "U+0663" >> }

NoColumn == << >>

Columns == Numbers \cup { NoColumn }

\* the warning marker after the location; the last has no blank after the
\* colon, so COMPILER_WARNING_RE does not match it
SpacedMark == << ":", " " >> \o WarningWord

TabbedMark == << ":", "\t", "W", "a", "r", "n", "i", "n", "g", ":" >>

TightMark == << ":" >> \o WarningWord

Marks == { SpacedMark, TabbedMark, TightMark }

MakeLine(pre, line, col, mark, post) ==
    pre \o << "a", ":" >> \o line
        \o (IF col # NoColumn THEN << ":" >> \o col ELSE << >>) \o mark \o post

Lines ==
    { MakeLine(p, l, c, m, q) :
        p \in Affixes(MaxAffix), l \in Numbers, c \in Columns, m \in Marks,
        q \in Affixes(MaxAffix) }

\* two lines that differ only in their line number and/or column number
NumberPairs ==
    { << MakeLine(p, n[1], n[2], m, q), MakeLine(p, n[3], n[4], m, q) >> :
        p \in Affixes(MaxPairAffix), q \in Affixes(MaxPairAffix),
        m \in { SpacedMark, TabbedMark },
        n \in { t \in Numbers \X Columns \X Numbers \X Columns :
                  (t[2] = NoColumn) <=> (t[4] = NoColumn) } }

\* the lines of the small logs
FewLines ==
    { MakeLine(p, l, NoColumn, SpacedMark, << >>) :
        p \in { << >>, << ".", "/" >> }, l \in { << "1" >>, << "2" >> } }
    \cup { MakeLine(<< >>, << "1" >>, << "2" >>, SpacedMark, << " ", "x" >>),
           MakeLine(<< >>, << "1" >>, NoColumn, TightMark, << >>) }

TextInput(a, b, pair) ==
    [pc |-> "in", a |-> a, b |-> b, pair |-> pair, out |-> << >>, again |-> << >>]

\* normalize_warning_line(x)
Normalize ==
    /\ text.pc = "in"
    /\ Len(text.a) = 1
    /\ text' = [text EXCEPT !.pc = "normalized",
                            !.out = << normalize_warning_line(text.a[1]) >>]
    /\ UNCHANGED progVars

\* normalize_warning_line(normalize_warning_line(x))
Renormalize ==
    /\ text.pc = "normalized"
    /\ text' = [text EXCEPT !.pc = "renormalized",
                            !.again = << normalize_warning_line(text.out[1]) >>]
    /\ UNCHANGED progVars

InitNormalize ==
    /\ InitProgram
    /\ text \in { TextInput(<< l >>, << >>, FALSE) : l \in Lines }

SpecNormalize == InitNormalize /\ [][Normalize \/ Renormalize]_vars

\* extract_normalized_warnings(lines)
Extract ==
    /\ text.pc = "in"
    /\ text' = [text EXCEPT !.pc = "extracted",
                            !.out = extract_normalized_warnings(text.a)]
    /\ UNCHANGED progVars

\* the same lines in another order, some of them repeated
Rearrangements(lines) ==
    { [i \in DOMAIN f |-> lines[f[i]]] :
        f \in UNION { { g \in [1..m -> 1..Len(lines)] :
                          \A k \in 1..Len(lines) : \E i \in 1..m : g[i] = k } :
                      m \in Len(lines)..(Len(lines) + 1) } }

\* extract_normalized_warnings on a rearrangement of the lines
ExtractRearranged ==
    /\ text.pc = "extracted"
    /\ \E r \in Rearrangements(text.a) :
          text' = [text EXCEPT !.pc = "rearranged", !.b = r,
                               !.again = extract_normalized_warnings(r)]
    /\ UNCHANGED progVars

InitExtract ==
    /\ InitProgram
    /\ text \in { TextInput(ls, << >>, FALSE) : ls \in SeqsUpTo(FewLines, MaxLines) }

SpecExtract == InitExtract /\ [][Extract \/ ExtractRearranged]_vars

InitPairs ==
    /\ InitProgram
    /\ text \in { TextInput(ls, << >>, TRUE) : ls \in NumberPairs }

SpecPairs == InitPairs /\ [][Extract]_vars

\* compare_warnings(baseline, candidate)
Compare ==
    /\ text.pc = "in"
    /\ text' = [text EXCEPT !.pc = "compared",
                            !.out = compare_warnings(text.a, text.b)]
    /\ UNCHANGED progVars

\* the lines of the two logs: one more warning, so that the logs can share
\* one, lose one and gain one
LogLines ==
    FewLines \cup { MakeLine(<< >>, << "2" >>, NoColumn, SpacedMark, << " ", "x" >>) }

InitCompare ==
    /\ InitProgram
    /\ text \in { TextInput(base, cand, FALSE) :
                    base \in SeqsUpTo(LogLines, MaxLogLines),
                    cand \in SeqsUpTo(LogLines, MaxLogLines) }

SpecCompare == InitCompare /\ [][Compare]_vars

(* ================================ claims ================================ *)
\* every child a run can start: the k-th command of job j
AllChildren == { << j, k >> : j \in Jobs, k \in 1..Len(BuildCommands("")) }

\* C1: every child put in the registry (a Popen handle by _spawn, a pid by
\* _run_vng_boot) is eventually taken out of it again, in every execution,
\* also when SIGINT arrives while children are tracked.
C1_EveryEntryEventuallyRemoved ==
    \A c \in AllChildren : [](c \in Registry => <>(c \notin Registry))

\* C2: when the handler's pass has walked the registry, kill was called
\* on every entry the registry held at that moment and on nothing else; an
\* entry reaped before the pass is not signaled; an entry that was in the
\* registry when the handler was entered and is not signaled was reaped in
\* between; an entry that is already gone does not end the pass, so every
\* signaled child that still runs has received the signal.
PassDone(f) == f.pc \in {"release", "raise"}

C2_PassSignalsWholeRegistry ==
    \A i \in 1..Len(hstack) :
        PassDone(hstack[i]) =>
            /\ hstack[i].sent = hstack[i].walked
            /\ hstack[i].sent \cap hstack[i].reaped = {}
            /\ (hstack[i].entry \ hstack[i].sent) \subseteq removed
            /\ hstack[i].delivered \subseteq hstack[i].sent
            /\ \A c \in hstack[i].sent : Alive(c) => termed[c[1]] # "none"

\* a pass over a Popen entry and a pid entry of which one was already gone,
\* after earlier children had been reaped
C2_PassOverGoneAndLive ==
    \E i \in 1..Len(hstack) :
        /\ PassDone(hstack[i])
        /\ Cardinality(hstack[i].sent) = 2
        /\ Cardinality(hstack[i].delivered) = 1
        /\ hstack[i].reaped # {}

\* C3: once _shutdown is set no child is created: no step taken with the
\* flag set turns a job's child into a running one.
C3_NoChildCreatedAfterFlag ==
    [][shutdown => \A j \in Jobs : proc'[j] = "running" => proc[j] = "running"]_vars

\* C4: registry mutations and the handler's traversal exclude one another
\* (a worker is inside a mutation exactly while it holds the lock, a handler
\* invocation is inside its traversal only while the main thread holds it),
\* and a handler invocation waiting for a lock held by a worker is never
\* stuck: the worker's release, or the handler's own entry, can happen.
MutationPcs == {"add", "rm", "b_add", "b_rm"}

TraversalPcs == {"traverse", "release"}

C4_LockGuardsRegistry ==
    /\ \A j \in Jobs : jpc[j] \in MutationPcs <=> lock = j
    /\ \A i \in 1..Len(hstack) : hstack[i].pc \in TraversalPcs => lock = MainThread
    /\ lock = MainThread =>
          Cardinality({ i \in 1..Len(hstack) : hstack[i].pc \in TraversalPcs }) = 1
    /\ (hstack # << >> /\ Top.pc = "acquire" /\ lock # MainThread) =>
          ENABLED (HAcquire \/ BAdd \/ BRemove \/ \E j \in Jobs : WAdd(j) \/ WRemove(j))
    /\ (hstack # << >> /\ Top.pc \in TraversalPcs) => ENABLED (HTraverse \/ HRelease)

\* the handler is inside its traversal while a worker waits for the lock to
\* take its reaped child out of the registry
C4_TraversalWhileWorkerWaits ==
    /\ hstack # << >>
    /\ Top.pc = "traverse"
    /\ \E j \in Jobs : jpc[j] \in {"acq_rm", "b_acq_rm"}

\* C5: after main has ended, every worktree directory the run created has
\* been destroyed or, at the least, its release has been run.
C5_NoWorktreeLeftBehind ==
    mpc = "done" => \A k \in 1..NumJobs : wt[k] \in {"none", "removed"} \/ k \in released

\* C6: while any job has a command to run, every worktree of the run exists;
\* if acquiring the k-th worktree fails, no job is submitted, no command
\* runs, and exactly the k-1 worktrees acquired before it are released.
AllWorktreesReady == \A k \in 1..NumJobs : wt[k] = "ready"

C6_WorktreesBeforeJobs ==
    /\ (\E j \in Jobs : jpc[j] \notin {"idle", "done"}) => AllWorktreesReady
    /\ (\E j \in Jobs : proc[j] = "running") => AllWorktreesReady
    /\ exc.type = "ClickException" =>
          /\ Submitted = {}
          /\ \A j \in Jobs : ran[j] = << >> /\ proc[j] = "none"
    /\ (exc.type = "ClickException" /\ mpc \in {"finally", "exit", "done"}) =>
          \E k \in 1..NumJobs :
              /\ wt[k] = "removed"
              /\ released = 1..(k - 1)
              /\ \A m \in (k + 1)..NumJobs : wt[m] = "none"

\* the run has ended on a failed acquisition after releasing earlier worktrees
C6_FailedAcquisitionReleased ==
    exc.type = "ClickException" /\ mpc = "done" /\ Cardinality(released) = NumJobs - 1

\* C7: build_config runs its steps in order; a step runs only if every step
\* before it returned 0; the job returns the code of the last step it ran,
\* and returns 0 only after all its steps returned 0.
C7_HaltsAtFirstFailure ==
    \A j \in BuildJobs :
        /\ \A i \in 1..(Len(ran[j]) - 1) : ran[j][i].rc = 0
        /\ \A i \in 1..Len(ran[j]) : ran[j][i].cmd = Commands(j)[i]
        /\ futures[j].st = "returned" =>
              /\ ran[j] # << >>
              /\ futures[j].rc = ran[j][Len(ran[j])].rc
              /\ futures[j].rc = 0 => Len(ran[j]) = Len(Commands(j))
              /\ jpc[j] = "done" /\ proc[j] # "running"

\* steps [ok, ok, fail, ...]: the job has returned after exactly 3 steps
C7_ThirdStepFailed ==
    \E j \in BuildJobs :
        /\ futures[j].st = "returned"
        /\ futures[j].rc = 2
        /\ Len(ran[j]) = 3
        /\ ran[j][3].rc = 2

\* C8: the first command build_config runs is the clean step, the commands it
\* has run are always a prefix of clean, configure, disable WERROR,
\* regenerate, compile with KCFLAGS=-Wno-error, and a job that returned 0 ran
\* exactly these five.
FiveSteps(name) ==
    << << "vng", "--clean" >>,
       << "make", name >>,
       << "./scripts/config", "-d", "WERROR" >>,
       << "make", "olddefconfig" >>,
       << "vng", "--build", "--skip-config", "KCFLAGS=-Wno-error" >> >>

RanCmds(j) == [i \in 1..Len(ran[j]) |-> ran[j][i].cmd]

C8_FixedCommandOrder ==
    \A j \in BuildJobs :
        /\ ran[j] # << >> => ran[j][1].cmd = << "vng", "--clean" >>
        /\ Len(ran[j]) <= 5
        /\ RanCmds(j) = SubSeq(FiveSteps(ConfigName(j[2])), 1, Len(ran[j]))
        /\ (futures[j].st = "returned" /\ futures[j].rc = 0) =>
              RanCmds(j) = FiveSteps(ConfigName(j[2]))

\* a build job has returned 0
C8_BuildSucceeded ==
    \E j \in BuildJobs :
        futures[j].st = "returned" /\ futures[j].rc = 0 /\ Len(ran[j]) = 5

\* C9: if a build job ended with a non-zero code, main never compares
\* warnings, the run exits 2 with the log directory kept, and the boot job
\* has run to its own result: it was not signaled and the flag is not set.
SomeBuildEndedNonZero ==
    \E j \in BuildJobs : futures[j].st = "returned" /\ futures[j].rc # 0

C9_BuildFailureIsHard ==
    /\ SomeBuildEndedNonZero => results = << >> /\ mpc \notin {"compare", "bootres", "report"}
    /\ (mpc = "done" /\ SomeBuildEndedNonZero) =>
          /\ exitCode = 2
          /\ tmp = "exists"
          /\ futures[BootJob].st = "returned"
          /\ termed[BootJob] # "TERM"
          /\ ~shutdown

\* a build failed and the boot job booted: it returned 0 with a uname line
C9_BuildFailedBootBooted ==
    /\ mpc = "done"
    /\ SomeBuildEndedNonZero
    /\ futures[BootJob] = Returned(0, TRUE)

\* C10: when every build job returned 0, the run exits 0 if no configuration
\* has a warning in its candidate log that its baseline log lacks and the
\* boot job returned 0, and exits 1 otherwise.
AllBuildsSucceeded ==
    \A j \in BuildJobs : futures[j].st = "returned" /\ futures[j].rc = 0

NewWarnings(c) == logw[<< "candidate", c >>] \ logw[<< "baseline", c >>]

C10_VerdictIsOr ==
    (mpc = "done" /\ AllBuildsSucceeded) =>
        /\ \A c \in WARN_CONFIGS : results[c] = NewWarnings(c)
        /\ exitCode = IF (\E c \in WARN_CONFIGS : NewWarnings(c) # {})
                         \/ futures[BootJob].rc # 0
                      THEN 1 ELSE 0

\* no configuration has a new warning and the boot failed: the run exits 1
C10_BootAloneFails ==
    /\ mpc = "done"
    /\ AllBuildsSucceeded
    /\ \A c \in WARN_CONFIGS : NewWarnings(c) = {}
    /\ futures[BootJob].rc # 0
    /\ exitCode = 1

\* C11: a non-zero exit of a command of the boot job's build phase ends the
\* run with code 2, as a failed build job does.
BootBuildFailed ==
    /\ futures[BootJob].st = "returned"
    /\ \E i \in 1..Len(ran[BootJob]) : ran[BootJob][i].rc # 0

C11_BootBuildFailureIsHard ==
    (mpc = "done" /\ BootBuildFailed) => exitCode = 2

\* C12: main is past the pool block, where it reads the build results and
\* then compares the logs, only when every build job has ended and its log
\* is final; it compares only when both jobs of every configuration
\* returned 0.
BuildJobsEnded ==
    \A j \in BuildJobs :
        /\ jpc[j] = "done"
        /\ futures[j].st \in {"returned", "raised"}
        /\ proc[j] # "running"

C12_CompareAfterBothBuilds ==
    /\ mpc \in {"collect", "compare", "bootres", "report"} => BuildJobsEnded
    /\ mpc \in {"compare", "bootres", "report"} =>
          \A c \in WARN_CONFIGS :
              /\ futures[<< "baseline", c >>] = Returned(0, FALSE)
              /\ futures[<< "candidate", c >>] = Returned(0, FALSE)
    /\ results # << >> =>
          \A c \in WARN_CONFIGS : results[c] = NewWarnings(c)

\* main compares the logs, the candidate's holding a warning the baseline's lacks
C12_ComparingLogs ==
    /\ mpc = "bootres"
    /\ BuildJobsEnded
    /\ \E c \in WARN_CONFIGS : results[c] # {}

\* C13: a boot child still running when the watchdog fires is killed by
\* it; a boot whose watchdog fired is returned as failed with the timeout
\* marker at the end of the transcript written to the log; and from the
\* moment the watchdog fires on a running child the boot job ends and main
\* ends: the run does not hang on the boot child.
WatchdogOutcome ==
    /\ (timer = "fired" /\ proc[BootJob] = "running") => termed[BootJob] = "KILL"
    /\ (jpc[BootJob] = "done" /\ timed_out) =>
          /\ futures[BootJob].st = "returned"
          /\ futures[BootJob].rc # 0
          /\ bootlog.written
          /\ bootlog.marker

WatchdogFiredOnRunning == timer = "set" /\ proc[BootJob] = "running"

C13_TimedOutBootFails ==
    /\ []WatchdogOutcome
    /\ WatchdogFiredOnRunning ~> (jpc[BootJob] = "done" /\ bootlog.marker)
    /\ WatchdogFiredOnRunning ~> (mpc = "done")

\* the watchdog killed the boot child and boot_test has returned
C13_KilledByWatchdog ==
    /\ jpc[BootJob] = "done"
    /\ termed[BootJob] = "KILL"
    /\ ~status.exited
    /\ futures[BootJob].rc = 1
    /\ bootlog.marker

\* C14: a boot child that exits with code 0 and whose transcript holds no
\* line matching the uname pattern is returned as failed, with an empty
\* signature.
C14_NoSignatureFails ==
    (jpc[BootJob] = "done" /\ bootlog.written /\ ~bootlog.uname) =>
        /\ futures[BootJob].st = "returned"
        /\ futures[BootJob].rc # 0
        /\ ~futures[BootJob].uname

\* the boot child exited 0, unhurried by the watchdog, without a uname line
C14_ExitZeroNoSignature ==
    /\ jpc[BootJob] = "done"
    /\ status = [exited |-> TRUE, code |-> 0]
    /\ ~timed_out
    /\ ~bootlog.uname
    /\ futures[BootJob] = Returned(1, FALSE)

\* C15: the boot job's build phase runs clean, then build; a command runs
\* only if the one before returned 0; after a build-phase command returned
\* non-zero no boot child is ever forked, nothing of a boot is written, and
\* boot_test returns that command's code with an empty signature; a boot
\* child is forked only after both commands returned 0.
TwoSteps ==
    << << "vng", "--clean" >>,
       << "vng", "--build", "KCFLAGS=-Wno-error" >> >>

BootRanCmds == [i \in 1..Len(ran[BootJob]) |-> ran[BootJob][i].cmd]

BootPhaseStarted ==
    \/ jcmd[BootJob] = BootCmd
    \/ timer # "off"
    \/ bootlog.written
    \/ child_pids # << >>

BootBuildStepFailed ==
    \E i \in 1..Len(ran[BootJob]) : ran[BootJob][i].rc \notin {0, NoRc}

C15_BuildFailureSkipsBoot ==
    /\ Len(ran[BootJob]) <= 2
    /\ BootRanCmds = SubSeq(TwoSteps, 1, Len(ran[BootJob]))
    /\ \A i \in 1..(Len(ran[BootJob]) - 1) : ran[BootJob][i].rc = 0
    /\ BootBuildStepFailed => ~BootPhaseStarted
    /\ BootBuildFailed =>
          futures[BootJob] = Returned(ran[BootJob][Len(ran[BootJob])].rc, FALSE)
    /\ BootPhaseStarted =>
          /\ Len(ran[BootJob]) = 2
          /\ \A i \in 1..2 : ran[BootJob][i].rc = 0

\* the build command of the boot job failed and boot_test has returned
C15_BootBuildCommandFailed ==
    /\ futures[BootJob] = Returned(2, FALSE)
    /\ Len(ran[BootJob]) = 2
    /\ ran[BootJob][2].rc = 2
    /\ ~BootPhaseStarted

\* C20: when "git worktree add" fails, the directory just created is
\* removed, the ClickException raised carries every non-blank character git
\* wrote to stderr, in order, after the fixed text, no job is given the
\* worktree (nothing is submitted), no later worktree is created, and no
\* release is run for the failed one.
NonBlank(t) == SelectSeq(t, LAMBDA ch : ch # " ")

C20_FailedAcquisition ==
    exc.type = "ClickException" =>
        /\ Head(exc.msg) = "failed to create worktree for rev"
        /\ NonBlank(exc.stderr) # << >> =>
              /\ Len(exc.msg) >= 3
              /\ exc.msg[2] = "\n"
              /\ NonBlank(SubSeq(exc.msg, 3, Len(exc.msg))) = NonBlank(exc.stderr)
        /\ \A k \in 1..NumJobs : wt[k] # "dir"
        /\ \E k \in 1..NumJobs :
              /\ wt[k] = "removed"
              /\ k \notin released
              /\ released \subseteq 1..(k - 1)
              /\ \A m \in (k + 1)..NumJobs : wt[m] = "none"
        /\ Submitted = {}
        /\ \A j \in Jobs : jpc[j] = "idle"

\* the second acquisition failed with a diagnostic set in blanks, and the
\* run has ended
C20_FailedWithDiagnostic ==
    /\ exc.type = "ClickException"
    /\ exc.stderr = << "e", " " >>
    /\ wt[2] = "removed"
    /\ mpc = "done"

\* the line handed to normalize_warning_line has the diagnostic shape
DiagnosticShaped(line) == CompilerWarningSearch(AnsiSub(line))

\* C16: normalization is idempotent: for every line of the diagnostic shape,
\* normalizing the normalized line gives the normalized line again
C16_NormalizeIdempotent ==
    (text.pc = "renormalized" /\ DiagnosticShaped(text.a[1]))
        => text.again = text.out

\* C17: two diagnostic lines that differ only in their line number and/or
\* column number normalize to the same record: extract_normalized_warnings
\* yields a single entry for them
C17_OneEntryForBoth ==
    (/\ text.pc = "extracted"
     /\ text.pair
     /\ \A i \in 1..2 : DiagnosticShaped(text.a[i]))
        => /\ normalize_warning_line(text.a[1]) = normalize_warning_line(text.a[2])
           /\ Len(text.out) = 1

\* a list in strictly ascending code-point order, hence free of duplicates
StrictlySorted(list) ==
    \A i \in 1..Len(list), j \in 1..Len(list) : i < j => StrLess(list[i], list[j])

\* C18: extract_normalized_warnings returns a sorted list without duplicates
\* that holds only normalized forms of diagnostic-shaped input lines, and it
\* returns the same list for every rearrangement of the input, repetitions
\* included
C18_ExtractSortedSetOfInput ==
    /\ text.pc \in { "extracted", "rearranged" } =>
          /\ StrictlySorted(text.out)
          /\ \A i \in 1..Len(text.out), j \in 1..Len(text.out) :
                text.out[i] = text.out[j] => i = j
          /\ \A i \in 1..Len(text.out) : \E k \in 1..Len(text.a) :
                /\ DiagnosticShaped(text.a[k])
                /\ text.out[i] = normalize_warning_line(text.a[k])
    /\ text.pc = "rearranged" => text.again = text.out

\* a log of three lines, one not a diagnostic and two with one normalized
\* form, extracted again after it was reordered with a line repeated
C18_ReorderedWithRepeats ==
    /\ text.pc = "rearranged"
    /\ Len(text.a) = 3
    /\ Len(text.b) = 4
    /\ \E k \in 1..3 : text.b[k] # text.a[k]
    /\ \E k \in 1..3 : ~DiagnosticShaped(text.a[k])
    /\ \E i \in 1..3, j \in 1..3 :
          /\ text.a[i] # text.a[j]
          /\ DiagnosticShaped(text.a[i]) /\ DiagnosticShaped(text.a[j])
          /\ normalize_warning_line(text.a[i]) = normalize_warning_line(text.a[j])
    /\ Len(text.out) = 1

\* the normalized forms of the diagnostic-shaped lines of a log
Diagnostics(log) ==
    { normalize_warning_line(log[k] \o << "\n" >>) :
        k \in { i \in 1..Len(log) : DiagnosticShaped(log[i] \o << "\n" >>) } }

\* C19: compare_warnings(baseline, candidate) is the sorted list of the
\* candidate's normalized diagnostics that are not among the baseline's: empty
\* when the candidate's are a subset of the baseline's, and never holding a
\* diagnostic of the baseline
C19_CompareIsSortedDifference ==
    text.pc = "compared" =>
        /\ StrictlySorted(text.out)
        /\ \A w \in Diagnostics(text.b) :
              (w \notin Diagnostics(text.a)) <=> (\E i \in 1..Len(text.out) : text.out[i] = w)
        /\ \A i \in 1..Len(text.out) :
              text.out[i] \in Diagnostics(text.b) /\ text.out[i] \notin Diagnostics(text.a)
        /\ Diagnostics(text.b) \subseteq Diagnostics(text.a) => text.out = << >>

\* the candidate repeats a baseline warning at another line number under
\* another spelling of the path and adds a new one, and the baseline has a
\* warning the candidate lost
C19_MovedNewAndRemoved ==
    /\ text.pc = "compared"
    /\ Len(text.out) = 1
    /\ \E i \in 1..Len(text.a), j \in 1..Len(text.b) :
          /\ text.a[i] # text.b[j]
          /\ DiagnosticShaped(text.a[i])
          /\ normalize_warning_line(text.a[i]) = normalize_warning_line(text.b[j])
    /\ Diagnostics(text.a) \ Diagnostics(text.b) # { }

\* the exit code a run owes to what happened before any worktree is
\* released: the prechecks, the acquisition, the builds, the comparison and
\* the boot
OutcomeCode ==
    CASE exc.type = "UsageError" -> 2
      [] exc.type = "ClickException" -> 1
      [] exc.type = "SystemExit" /\ tmp = "none" -> 2
      [] build_failed -> 2
      [] HasFailures -> 1
      [] OTHER -> 0

\* C21: releasing a worktree changes neither the error propagating nor the
\* job results nor main's findings, whether the removal succeeded or not, and
\* goes on to the worktree below it; the exit code of the run is the one the
\* earlier phases determined.
C21_RemovalFailureChangesNothing ==
    /\ [][(mpc = "unwind" /\ wtidx' # wtidx) =>
            /\ exc' = exc
            /\ futures' = futures
            /\ results' = results /\ boot_ok' = boot_ok /\ build_failed' = build_failed
            /\ released' = released \cup {wtidx}
            /\ mpc' = StartUnwind(wtidx - 1, exc)]_vars
    /\ [](mpc \in {"report", "finally"} /\ wtidx = 0 /\ sidx = NumJobs
            => released = 1..NumJobs)
    /\ [](mpc = "done" => exitCode = OutcomeCode)

\* a run that ended in full success although the removal of its last
\* worktree failed and the others were then removed
C21_RemovalFailedExitZero ==
    /\ mpc = "done"
    /\ exitCode = 0
    /\ released = 1..NumJobs
    /\ wt[NumJobs] = "ready"
    /\ \A k \in 1..(NumJobs - 1) : wt[k] = "removed"

\* C22: the temporary log directory is removed exactly when the run ends with
\* exit code 0; a run that ends with 1 on new warnings or a failed boot, or
\* with 2 on a failed build, keeps it; it is removed only after a verdict
\* without failures.
C22_LogsRemovedOnlyOnSuccess ==
    /\ mpc = "done" => (tmp = "removed" <=> exitCode = 0)
    /\ (mpc = "done" /\ (build_failed \/ boot_ok = "failed"
                         \/ \E c \in DOMAIN results : results[c] # {}))
          => tmp = "exists" /\ exitCode = IF build_failed THEN 2 ELSE 1
    /\ tmp = "removed" =>
          /\ ~build_failed /\ boot_ok = "ok"
          /\ DOMAIN results = WARN_CONFIGS
          /\ \A c \in WARN_CONFIGS : results[c] = {}

\* a run that ended in full success and removed its logs
C22_SuccessLogsRemoved ==
    mpc = "done" /\ exitCode = 0 /\ tmp = "removed" /\ boot_ok = "ok"

\* a check before the expensive work failed: a UsageError (tool missing, not
\* a repository, dirty tree) or the sys.exit(2) of an unresolved revision or
\* of run_checkpatch, raised before the log directory exists
PrecheckFailed ==
    \/ exc.type = "UsageError"
    \/ exc.type = "SystemExit" /\ tmp = "none"

NothingStarted ==
    /\ \A k \in 1..NumJobs : wt[k] = "none"
    /\ tmp = "none"
    /\ Submitted = {}
    /\ \A j \in Jobs : jpc[j] = "idle" /\ proc[j] = "none" /\ ran[j] = << >>

\* C23: when a check fails, the run ends with a non-zero code, 2 for an
\* unresolved revision and for a failed style check, and no worktree was
\* created and no job started; nothing is created or started before the
\* checks have passed.
C23_ChecksBeforeWork ==
    /\ PrecheckFailed =>
          /\ NothingStarted
          /\ mpc \in {"exit", "done"}
          /\ mpc = "done" => exitCode # 0
          /\ (mpc = "done" /\ exc.type = "SystemExit") => exitCode = 2
    /\ mpc = "pre" => NothingStarted
    /\ ~NothingStarted => exc.type # "UsageError"

\* the run has ended on a dirty tree
C23_DirtyTreeRejected ==
    mpc = "done" /\ exc.type = "UsageError" /\ exc.msg = << "dirty" >> /\ exitCode = 2

\* the worktree made for job j
WorktreeOf(j) == CHOOSE n \in 1..NumJobs : JobOrder(n) = j

\* C24: no two worktrees that exist have the same directory, also when they
\* are made for the same revision; every submitted job works in the directory
\* of its own worktree and writes its own log: no two submitted jobs have the
\* same directory or the same log path.
C24_NoSharedWorkspace ==
    /\ \A m \in 1..NumJobs, n \in 1..NumJobs :
          (m # n /\ wt[m] \in {"dir", "ready"} /\ wt[n] \in {"dir", "ready"})
              => ws.dir[m] # ws.dir[n]
    /\ \A j \in Submitted :
          /\ ws.cwd[j] = ws.dir[WorktreeOf(j)]
          /\ jpc[j] # "done" => wt[WorktreeOf(j)] = "ready"
    /\ \A i \in Submitted, j \in Submitted :
          i # j => ws.cwd[i] # ws.cwd[j] /\ ws.log[i] # ws.log[j]

\* a candidate build and the boot job, both made for HEAD, each with a child
\* running
C24_SameRevisionSideBySide ==
    \E j \in BuildJobs :
        /\ Rev(WorktreeOf(j)) = Rev(WorktreeOf(BootJob))
        /\ proc[j] = "running" /\ proc[BootJob] = "running"
        /\ ws.cwd[j] # ws.cwd[BootJob]

\* C25: a second invocation of the handler completes: it never waits for the
\* registry lock while an earlier invocation, suspended beneath it on the
\* main thread, holds it; the flag stays set; its pass signals no child
\* that was already taken out of the registry.
C25_SecondInterruptCompletes ==
    /\ (Len(hstack) >= 2 /\ Top.pc = "acquire") => lock # MainThread
    /\ hstack # << >> => shutdown
    /\ \A i \in 1..Len(hstack) :
          PassDone(hstack[i]) => hstack[i].sent \cap hstack[i].reaped = {}

\* where a worker waits for its child: run_and_log reading the child's
\* output and proc.wait(), _run_vng_boot reading the pty and os.waitpid
BlockingPcs == {"wait", "b_read"}

\* C26: the registry lock is held by a worker only inside an append or a
\* remove, which it can always finish at once, and by the main thread only
\* inside a handler's traversal; no worker holds it while it reads its
\* child's output or waits for the child to exit, and the watchdog thread
\* never holds it.
C26_LockNeverAcrossWait ==
    /\ lock \in {NoThread, MainThread} \cup Jobs
    /\ \A j \in Jobs :
          /\ lock = j => jpc[j] \in MutationPcs
          /\ jpc[j] \in BlockingPcs => lock # j
          /\ lock = j =>
                ENABLED (WAdd(j) \/ WRemove(j) \/ (j = BootJob /\ (BAdd \/ BRemove)))
    /\ lock = MainThread =>
          \E i \in 1..Len(hstack) : hstack[i].pc \in TraversalPcs

\* a build worker is inside its remove while the boot worker reads the pty
\* of the running boot child under an armed watchdog
C26_RemoveDuringBootRead ==
    \E j \in BuildJobs :
        /\ lock = j /\ jpc[j] = "rm"
        /\ jpc[BootJob] = "b_read" /\ proc[BootJob] = "running"
        /\ timer = "armed"

\* the registry entries of job j
Tracked(j) == { c \in Registry : c[1] = j }

\* C27: a job launches a command only when it has no child: every command
\* it launched before has exited with its code recorded and was taken out
\* of the registry; a job never has more than one registry entry, and that
\* entry is its current command's child.
C27_OneChildPerJob ==
    /\ [][\A j \in Jobs :
            (Len(ran'[j]) > Len(ran[j]) \/ (proc'[j] = "running" /\ proc[j] # "running")) =>
                /\ proc[j] \in {"none", "gone"}
                /\ Tracked(j) = {}
                /\ \A k \in 1..Len(ran[j]) :
                      ran[j][k].rc # NoRc /\ << j, k >> \in removed]_vars
    /\ [](\A j \in Jobs :
            /\ Cardinality(Tracked(j)) <= 1
            /\ Tracked(j) \subseteq {Child(j)}
            /\ Len(SelectSeq(child_procs \o child_pids, LAMBDA c : c[1] = j)) <= 1)

\* two build jobs have a child running at once, one its first command and
\* the other its last
C27_JobsSideBySide ==
    \E i \in BuildJobs, j \in BuildJobs :
        /\ proc[i] = "running" /\ jcmd[i] = 1
        /\ proc[j] = "running" /\ jcmd[j] = Len(Commands(j))
        /\ Child(i) \in Registry /\ Child(j) \in Registry

\* job j has ended on a command that returned non-zero
JobFailed(j) == futures[j].st = "returned" /\ ran[j] # << >> /\ ran[j][Len(ran[j])].rc > 0

\* C28: a job that ends on a failed command leaves the other jobs alone: the
\* step in which it returns changes nothing of any other job and does not
\* set the flag; without SIGINT no build child is ever signaled (the boot
\* child only by its own watchdog), no launch is refused, and when main
\* collects the results every job has run to its own end: it returned, with
\* 0 exactly if all of its own commands returned 0.
C28_FailureLeavesSiblingsAlone ==
    /\ [][\A i \in Jobs :
            (JobFailed(i)' /\ ~JobFailed(i)) =>
                /\ shutdown' = shutdown
                /\ \A j \in Jobs \ {i} :
                      /\ jpc'[j] = jpc[j] /\ jcmd'[j] = jcmd[j] /\ proc'[j] = proc[j]
                      /\ termed'[j] = termed[j] /\ ran'[j] = ran[j]
                      /\ futures'[j] = futures[j]]_vars
    /\ [](/\ ~shutdown
          /\ \A j \in BuildJobs : termed[j] = "none"
          /\ termed[BootJob] \in {"none", "KILL"}
          /\ termed[BootJob] = "KILL" => timed_out
          /\ \A j \in Jobs : futures[j].st # "raised")
    /\ [](mpc \in {"collect", "compare", "bootres"} =>
            \A j \in Jobs :
                /\ jpc[j] = "done" /\ futures[j].st = "returned"
                /\ j \in BuildJobs =>
                      (futures[j].rc = 0 <=>
                          /\ Len(ran[j]) = Len(Commands(j))
                          /\ \A k \in 1..Len(ran[j]) : ran[j][k].rc = 0))

\* main collects: one build job failed at its first command, the other has
\* run all of its commands and returned 0, and the boot job booted
C28_SiblingsFinished ==
    /\ mpc = "collect"
    /\ \E i \in BuildJobs, j \in BuildJobs :
          /\ JobFailed(i) /\ Len(ran[i]) = 1
          /\ futures[j].rc = 0 /\ Len(ran[j]) = Len(Commands(j))
    /\ futures[BootJob].st = "returned" /\ futures[BootJob].rc = 0

\* C29: the boot is reported as timed out (marker in the transcript, code 1
\* for that reason) only if the watchdog's SIGKILL ended the boot child; a
\* child that exited by itself has no marker and its own exit status
\* returned.
C29_TimedOutOnlyIfKilled ==
    (jpc[BootJob] = "done" /\ bootlog.written /\ status # NoStatus) =>
        /\ bootlog.marker => (termed[BootJob] = "KILL" /\ ~status.exited)
        /\ status.exited =>
              /\ ~bootlog.marker
              /\ futures[BootJob].rc = BootTestRc(status.code, bootlog.uname)


\* a step of the watchdog thread: timed_out.set(), or the kill after it
WatchdogStep == timer \in {"armed", "set"} /\ timer' \in {"set", "fired"} /\ timer' # timer

\* C30: the boot timeout cancels one job only. A step of the watchdog leaves
\* the cancellation flag unset, leaves both registries as they are, signals no
\* child of another job and ends none; and once the watchdog has fired, a
\* build job that reaches _spawn's test of the flag is let through to Popen.
C30_TimeoutIsSingleJob ==
    /\ [][WatchdogStep =>
            /\ shutdown' = shutdown
            /\ child_procs' = child_procs
            /\ child_pids' = child_pids
            /\ \A j \in Jobs \ {BootJob} :
                  termed'[j] = termed[j] /\ proc'[j] = proc[j] /\ jpc'[j] = jpc[j]]_vars
    /\ [](timed_out =>
            /\ ~shutdown
            /\ \A j \in BuildJobs :
                  jpc[j] = "check" => ENABLED (WCheck(j) /\ jpc'[j] = "popen"))

\* the watchdog killed the boot child, boot_test wrote the timed-out
\* transcript, and a build job launched after that has its child running,
\* unsignaled and registered
C30_BuildLaunchedAfterTimeout ==
    /\ timer = "fired"
    /\ termed[BootJob] = "KILL"
    /\ bootlog.marker
    /\ \E j \in BuildJobs :
          /\ jpc[j] = "wait"
          /\ proc[j] = "running"
          /\ termed[j] = "none"
          /\ Child(j) \in Range(child_procs)


\* C31: a run in which the worker of a job raised instead of returning (its
\* launch was refused, or Popen could not start the command) ends with the
\* hard-failure code 2, every worktree released, and no exception left for
\* the interpreter to report.
C31_RaisedJobIsHardFailure ==
    (mpc = "done" /\ SomeRaised(Jobs)) =>
        /\ exitCode = 2
        /\ released = 1..NumJobs
        /\ exc.type \in {"SystemExit", "UsageError", "ClickException"}


\* the commands of job j that were started, in the order they were started
Executed(j) ==
    [k \in 1..Len(ran[j]) |-> ran[j][k].cmd]
    \o (IF j = BootJob /\ timer # "off" THEN << VngRun >> ELSE << >>)

\* the commands named by the "# cmd:" lines of a log, in the log's order
Marked(log) ==
    LET marks == SelectSeq(log, LAMBDA l : l.line = "cmd")
    IN [k \in 1..Len(marks) |-> marks[k].cmd]

BuildPhaseFailed(j) ==
    Len(ran[j]) < Len(Commands(j)) \/ \E k \in 1..Len(ran[j]) : ran[j][k].rc # 0

\* C32: the log of a job that ended starts with the header; its "# cmd:"
\* lines name exactly the commands that were executed, in execution order
\* (none for a command that never ran); each output stands directly after the
\* marker of its command; the boot job's virtual-machine marker and
\* transcript are the last lines, and are absent when the build phase failed.
C32_LogFollowsExecution ==
    \A j \in Jobs : jpc[j] = "done" =>
        LET log == JobLog(j)
        IN /\ log[1].line = "header"
           /\ \A i \in 2..Len(log) : log[i].line # "header"
           /\ Marked(log) = Executed(j)
           /\ \A i \in 1..Len(log) :
                 log[i].line \in {"output", "transcript"} =>
                     i > 1 /\ log[i - 1] = [line |-> "cmd", cmd |-> log[i].cmd]
           /\ \A i \in 1..Len(log) :
                 log[i].cmd = VngRun => i >= Len(log) - 1 /\ ~BuildPhaseFailed(j)


\* C33: once the interrupt handler has finished, every child process that
\* exists has been sent a termination signal, whenever it was created and
\* whenever it was put into the registry.
C33_NoChildSurvivesUnsignaled ==
    (nint > 0 /\ hstack = << >>) =>
        \A j \in Jobs : proc[j] = "running" => termed[j] # "none"


\* C34: a worktree whose release has run belongs to a job that is in a
\* terminal state (or was never submitted): no worker thread still has a
\* command of that job running or pending in it.
C34_ReleasedOnlyAfterJobEnded ==
    \A n \in released : jpc[JobOrder(n)] \in {"idle", "done"}


\* sig is what the last line of the transcript that matches the uname pattern
\* holds, ANSI sequences and outer blanks aside
LastMatching(lines, sig) ==
    \E i \in 1..Len(lines) :
        /\ UnameMatch(UnameLine(lines[i]))
        /\ UnameLine(lines[i]) = sig
        /\ \A k \in (i + 1)..Len(lines) : ~UnameMatch(UnameLine(lines[k]))

\* C35: boot_test returns 0 only with evidence: the signature it returns with
\* code 0 is not empty and is the last line of the transcript matching the
\* uname pattern; and a boot_test that returned after a failed build phase,
\* after _run_vng_boot refused to launch, or after the watchdog fired, has
\* returned a non-zero code.
C35_BootSuccessHasEvidence ==
    futures[BootJob].st = "returned" =>
        /\ futures[BootJob].rc = 0 =>
              /\ futures[BootJob].uname
              /\ text.pc = "booted"
              /\ text.out # << >>
              /\ LastMatching(text.a, text.out)
        /\ (BuildPhaseFailed(BootJob) \/ timer = "off" \/ timed_out) =>
              futures[BootJob].rc # 0

\* boot_test returned 0 for a transcript with two different matching lines
C35_LastOfTwoSignatures ==
    /\ futures[BootJob].st = "returned"
    /\ futures[BootJob].rc = 0
    /\ Len(text.a) = 2
    /\ UnameMatch(UnameLine(text.a[1]))
    /\ UnameMatch(UnameLine(text.a[2]))
    /\ UnameLine(text.a[1]) # UnameLine(text.a[2])
    /\ text.out = UnameLine(text.a[2])

=============================================================================
